---- MODULE Spec2Model ----
(***************************************************************************)
(* Model of the group-chat servicer couchers.servicers.conversations       *)
(* (class Conversations).  The database tables are the state; every gRPC   *)
(* handler is one action (one transaction).  Message and subscription ids  *)
(* are the positions in the sequences `messages' and `subs' (autoincrement *)
(* primary keys), chat ids are positions in `chats'.                       *)
(***************************************************************************)
EXTENDS Integers, Sequences, FiniteSets, TLC

\* ---------------------------------------------------------------- bounds
NumUsers == 3
MaxTime == 2
MaxRecipients == 2
\* A run is explored within one of three limits on the number of chats, of
\* messages, of MarkLastSeenGroupChat calls and on the clock: several chats
\* with a short log, one chat with a long log, one chat with a short log and
\* marking.
MaxChats == 2
MinMessages == 3
MaxMessages == 4
MaxMarkCalls == 1
\* concurrent calls in flight
NumProcs == 2
\* normal messages in the log that is read page by page
MaxLog == 21

\* ------------------------------------------------------- program constants
PAGINATION_LENGTH == 20
\* SQL NULL / Python None for a column holding a positive number
None == 0

VARIABLES chats, subs, messages, now, marks, lim, txns, pg

vars == <<chats, subs, messages, now, marks, lim, txns, pg>>

Users == 1..NumUsers
ChatIds == 1..MaxChats
Titles == {"", "t"}
CreateTitles == {""}

Range(s) == {s[i] : i \in DOMAIN s}

\* ------------------------------------------------------------- responses
\* context.abort(code, detail) raises; session_scope rolls the session back.
Abort(code, detail) == [code |-> code, error |-> detail]
Ok == [code |-> "OK", error |-> ""]

\* Query.one_or_none(): None for no row, the row for one, and it raises
\* MultipleResultsFound for more than one (reported as Many).
Many == -1
one_or_none(S) ==
    IF S = {} THEN None
    ELSE IF Cardinality(S) = 1 THEN CHOOSE x \in S : TRUE
    ELSE Many
MultipleResultsFound == Abort("UNKNOWN", "MultipleResultsFound")

\* ------------------------------------------------------------ row makers
GroupChatRow(title, creator, dm, oai) ==
    [title |-> title, creator_id |-> creator, is_dm |-> dm, only_admins_invite |-> oai]

\* variant whose joined time is stamped after the rows of the same commit
GroupChatSubscription_JoinedLater(user, chat, role, t) ==
    [user_id |-> user, group_chat_id |-> chat, role |-> role,
     joined |-> t + 1, left |-> None, last_seen_message_id |-> 0]

GroupChatSubscription(user, chat, role, t) ==
    [user_id |-> user, group_chat_id |-> chat, role |-> role,
     joined |-> t, left |-> None, last_seen_message_id |-> 0]

Message(conv, author, type, text, target, t) ==
    [conversation_id |-> conv, author_id |-> author, message_type |-> type,
     text |-> text, target_id |-> target, time |-> t]

\* ------------------------------------------------------- common queries
\* variant that also finds the subscriptions the user has left
OpenSubIds_IgnoreLeft(c, u) ==
    {i \in DOMAIN subs : /\ subs[i].group_chat_id = c
                         /\ subs[i].user_id = u}

\* ids of the open subscriptions of user u to chat c (left == None)
OpenSubIds(c, u) ==
    {i \in DOMAIN subs : /\ subs[i].group_chat_id = c
                         /\ subs[i].user_id = u
                         /\ subs[i].left = None}

\* number of open subscriptions with the given role of users other than u
other_admins_count(c, u) ==
    Cardinality({i \in DOMAIN subs : /\ subs[i].group_chat_id = c
                                     /\ subs[i].user_id # u
                                     /\ subs[i].role = "admin"
                                     /\ subs[i].left = None})

participants_count(c, u) ==
    Cardinality({i \in DOMAIN subs : /\ subs[i].group_chat_id = c
                                     /\ subs[i].user_id # u
                                     /\ subs[i].role = "participant"
                                     /\ subs[i].left = None})

Limits ==
    {[chats |-> MaxChats, messages |-> MinMessages, marks |-> 0, time |-> MaxTime],
     [chats |-> 1, messages |-> MaxMessages, marks |-> 0, time |-> MaxTime],
     [chats |-> 1, messages |-> MinMessages, marks |-> MaxMarkCalls, time |-> MaxTime]}

NoTxns == [p \in {} |-> 0]
NoPage == [stage |-> "off"]

Init ==
    /\ chats = << >>
    /\ subs = << >>
    /\ messages = << >>
    /\ now = 1
    /\ marks = 0
    /\ lim \in Limits
    /\ txns = NoTxns
    /\ pg = NoPage

\* the database clock (func.now()) moves on between calls
Tick ==
    /\ now < lim.time
    /\ now' = now + 1
    /\ UNCHANGED <<chats, subs, messages, marks, lim, txns, pg>>

\* ------------------------------------------------------ MarkLastSeenGroupChat
\* variant refusing a repeated mark of the current id (< where the code has <=)
MarkLastSeenGroupChatStatus_Strict(u, c, seen) ==
    LET subscription == one_or_none(OpenSubIds(c, u)) IN
    IF subscription = Many THEN MultipleResultsFound
    ELSE IF subscription = None THEN Abort("NOT_FOUND", "CHAT_NOT_FOUND")
    ELSE IF ~(subs[subscription].last_seen_message_id < seen)
         THEN Abort("FAILED_PRECONDITION", "CANT_UNSEE_MESSAGES")
    ELSE Ok

MarkLastSeenGroupChatStatus(u, c, seen) ==
    LET subscription == one_or_none(OpenSubIds(c, u)) IN
    IF subscription = Many THEN MultipleResultsFound
    ELSE IF subscription = None THEN Abort("NOT_FOUND", "CHAT_NOT_FOUND")
    ELSE IF ~(subs[subscription].last_seen_message_id <= seen)
         THEN Abort("FAILED_PRECONDITION", "CANT_UNSEE_MESSAGES")
    ELSE Ok

MarkLastSeenGroupChat(u, c, seen) ==
    LET res == MarkLastSeenGroupChatStatus(u, c, seen)
        subscription == one_or_none(OpenSubIds(c, u)) IN
    /\ marks < lim.marks
    /\ res.code = "OK"
    /\ subs' = [subs EXCEPT ![subscription].last_seen_message_id = seen]
    /\ marks' = marks + 1
    /\ UNCHANGED <<chats, messages, now, lim, txns, pg>>

\* ------------------------------------------------------------ CreateGroupChat
\* variant that looks only at the DMs the caller created
DMRows_CreatorOnly(u, other) ==
    {c \in DOMAIN chats :
        /\ chats[c].is_dm
        /\ chats[c].creator_id = u
        /\ Cardinality({i \in DOMAIN subs : /\ subs[i].group_chat_id = c
                                            /\ subs[i].user_id \in {u, other}
                                            /\ subs[i].left = None}) = 2}

\* chats that are DMs in which the two users hold two open subscriptions
\* (group_by group_chat_id having count == 2)
DMRows(u, other) ==
    {c \in DOMAIN chats :
        /\ chats[c].is_dm
        /\ Cardinality({i \in DOMAIN subs : /\ subs[i].group_chat_id = c
                                            /\ subs[i].user_id \in {u, other}
                                            /\ subs[i].left = None}) = 2}

\* the loop over the recipients aborts at the first one that is not a friend;
\* fr is the set of users get_friends_status reports as FRIENDS of the caller
AllFriends(recipient_user_ids, fr) ==
    \A i \in DOMAIN recipient_user_ids : recipient_user_ids[i] \in fr

CreateGroupChatStatus(u, recipient_user_ids, fr) ==
    IF Len(recipient_user_ids) < 1 THEN Abort("INVALID_ARGUMENT", "NO_RECIPIENTS")
    ELSE IF Len(recipient_user_ids) # Cardinality(Range(recipient_user_ids))
         THEN Abort("INVALID_ARGUMENT", "INVALID_RECIPIENTS")
    ELSE IF u \in Range(recipient_user_ids) THEN Abort("INVALID_ARGUMENT", "CANT_ADD_SELF")
    ELSE IF /\ Len(recipient_user_ids) = 1
            /\ one_or_none(DMRows(u, recipient_user_ids[1])) = Many
         THEN MultipleResultsFound
    ELSE IF /\ Len(recipient_user_ids) = 1
            /\ one_or_none(DMRows(u, recipient_user_ids[1])) # None
         THEN Abort("FAILED_PRECONDITION", "You already have a direct message chat with this user.")
    ELSE IF ~AllFriends(recipient_user_ids, fr)
         THEN IF Len(recipient_user_ids) > 1
              THEN Abort("FAILED_PRECONDITION", "GROUP_CHAT_ONLY_ADD_FRIENDS")
              ELSE Abort("FAILED_PRECONDITION", "DIRECT_MESSAGE_ONLY_FRIENDS")
    ELSE Ok

\* variant that subscribes the recipients as admins too
CreateGroupChatRows_AllAdmins(u, recipient_user_ids, title, oai, t) ==
    LET c == Len(chats) + 1 IN
    /\ chats' = Append(chats, GroupChatRow(title, u, Len(recipient_user_ids) = 1, oai))
    /\ subs' = subs \o <<GroupChatSubscription(u, c, "admin", t)>>
                    \o [i \in DOMAIN recipient_user_ids |->
                          GroupChatSubscription(recipient_user_ids[i], c, "admin", t)]
    /\ messages' = Append(messages, Message(c, u, "chat_created", "", None, t))

\* the rows CreateGroupChat adds: the chat, the creator's admin subscription,
\* one participant subscription per recipient, the chat_created message
CreateGroupChatRows(u, recipient_user_ids, title, oai, t) ==
    LET c == Len(chats) + 1 IN
    /\ chats' = Append(chats, GroupChatRow(title, u, Len(recipient_user_ids) = 1, oai))
    /\ subs' = subs \o <<GroupChatSubscription(u, c, "admin", t)>>
                    \o [i \in DOMAIN recipient_user_ids |->
                          GroupChatSubscription(recipient_user_ids[i], c, "participant", t)]
    /\ messages' = Append(messages, Message(c, u, "chat_created", "", None, t))

\* request.title.value is the title (chats are created with the title unset and
\* titled by EditGroupChat); only_admins_invite takes the column's default,
\* which the servicer does not set: either value
CreateGroupChat(u, recipient_user_ids, fr) ==
    LET res == CreateGroupChatStatus(u, recipient_user_ids, fr) IN
    /\ Len(chats) < lim.chats
    /\ Len(messages) < lim.messages
    /\ res.code = "OK"
    /\ \E title \in CreateTitles, oai \in BOOLEAN :
          CreateGroupChatRows(u, recipient_user_ids, title, oai, now)
    /\ UNCHANGED <<now, marks, lim, txns, pg>>

\* ---------------------------------------------------------------- SendMessage
\* variant that also accepts a subscription the sender has left
SendMessageStatus_LeftIncluded(u, c, text) ==
    LET subscription == one_or_none(OpenSubIds_IgnoreLeft(c, u)) IN
    IF text = "" THEN Abort("INVALID_ARGUMENT", "INVALID_MESSAGE")
    ELSE IF subscription = Many THEN MultipleResultsFound
    ELSE IF subscription = None THEN Abort("NOT_FOUND", "CHAT_NOT_FOUND")
    ELSE Ok

SendMessageStatus(u, c, text) ==
    LET subscription == one_or_none(OpenSubIds(c, u)) IN
    IF text = "" THEN Abort("INVALID_ARGUMENT", "INVALID_MESSAGE")
    ELSE IF subscription = Many THEN MultipleResultsFound
    ELSE IF subscription = None THEN Abort("NOT_FOUND", "CHAT_NOT_FOUND")
    ELSE Ok

SendMessage(u, c, text) ==
    LET res == SendMessageStatus(u, c, text)
        subscription == one_or_none(OpenSubIds(c, u)) IN
    /\ Len(messages) < lim.messages
    /\ res.code = "OK"
    /\ messages' = Append(messages, Message(c, u, "normal", text, None, now))
    /\ subs' = [subs EXCEPT ![subscription].last_seen_message_id = Len(messages) + 1]
    /\ UNCHANGED <<chats, now, marks, lim, txns, pg>>

\* -------------------------------------------------------------- EditGroupChat
\* variant without the role check
EditGroupChatStatus_AnyMember(u, c) ==
    LET subscription == one_or_none(OpenSubIds(c, u)) IN
    IF subscription = Many THEN MultipleResultsFound
    ELSE IF subscription = None THEN Abort("NOT_FOUND", "CHAT_NOT_FOUND")
    ELSE Ok

EditGroupChatStatus(u, c) ==
    LET subscription == one_or_none(OpenSubIds(c, u)) IN
    IF subscription = Many THEN MultipleResultsFound
    ELSE IF subscription = None THEN Abort("NOT_FOUND", "CHAT_NOT_FOUND")
    ELSE IF subs[subscription].role # "admin"
         THEN Abort("PERMISSION_DENIED", "ONLY_ADMIN_CAN_EDIT")
    ELSE Ok

\* an optional request field: << >> when unset, <<value>> when set
HasField(field) == Len(field) = 1
Optional(S) == {<< >>} \cup {<<x>> : x \in S}

\* the rows a successful EditGroupChat writes
EditGroupChatRows(u, c, title, only_admins_invite, t) ==
    /\ chats' = [chats EXCEPT
           ![c].title = IF HasField(title) THEN title[1] ELSE @,
           ![c].only_admins_invite =
               IF HasField(only_admins_invite) THEN only_admins_invite[1] ELSE @]
    /\ messages' = Append(messages, Message(c, u, "chat_edited", "", None, t))

EditGroupChat(u, c) ==
    LET res == EditGroupChatStatus(u, c) IN
    /\ Len(messages) < lim.messages
    /\ res.code = "OK"
    /\ \E title \in Optional(Titles), only_admins_invite \in Optional(BOOLEAN) :
          EditGroupChatRows(u, c, title, only_admins_invite, now)
    /\ UNCHANGED <<subs, now, marks, lim, txns, pg>>

\* --------------------------------------------------------- MakeGroupChatAdmin
\* variant without the check that the target is the caller
MakeGroupChatAdminStatus_NoSelfCheck(u, c, target) ==
    LET your_subscription == one_or_none(OpenSubIds(c, u))
        their_subscription == one_or_none(OpenSubIds(c, target)) IN
    IF your_subscription = Many THEN MultipleResultsFound
    ELSE IF your_subscription = None THEN Abort("NOT_FOUND", "CHAT_NOT_FOUND")
    ELSE IF subs[your_subscription].role # "admin"
         THEN Abort("PERMISSION_DENIED", "ONLY_ADMIN_CAN_MAKE_ADMIN")
    ELSE IF their_subscription = Many THEN MultipleResultsFound
    ELSE IF their_subscription = None THEN Abort("FAILED_PRECONDITION", "USER_NOT_IN_CHAT")
    ELSE IF subs[their_subscription].role # "participant"
         THEN Abort("FAILED_PRECONDITION", "ALREADY_ADMIN")
    ELSE Ok

MakeGroupChatAdminStatus(u, c, target) ==
    LET your_subscription == one_or_none(OpenSubIds(c, u))
        their_subscription == one_or_none(OpenSubIds(c, target)) IN
    IF your_subscription = Many THEN MultipleResultsFound
    ELSE IF your_subscription = None THEN Abort("NOT_FOUND", "CHAT_NOT_FOUND")
    ELSE IF subs[your_subscription].role # "admin"
         THEN Abort("PERMISSION_DENIED", "ONLY_ADMIN_CAN_MAKE_ADMIN")
    ELSE IF target = u THEN Abort("FAILED_PRECONDITION", "CANT_MAKE_SELF_ADMIN")
    ELSE IF their_subscription = Many THEN MultipleResultsFound
    ELSE IF their_subscription = None THEN Abort("FAILED_PRECONDITION", "USER_NOT_IN_CHAT")
    ELSE IF subs[their_subscription].role # "participant"
         THEN Abort("FAILED_PRECONDITION", "ALREADY_ADMIN")
    ELSE Ok

MakeGroupChatAdmin(u, c, target) ==
    LET res == MakeGroupChatAdminStatus(u, c, target)
        their_subscription == one_or_none(OpenSubIds(c, target)) IN
    /\ Len(messages) < lim.messages
    /\ res.code = "OK"
    /\ subs' = [subs EXCEPT ![their_subscription].role = "admin"]
    /\ messages' = Append(messages, Message(c, u, "made_admin", "", target, now))
    /\ UNCHANGED <<chats, now, marks, lim, txns, pg>>

\* ------------------------------------------------------- RemoveGroupChatAdmin
\* ids of the open admin subscriptions of user u to chat c
OpenAdminSubIds(c, u) ==
    {i \in OpenSubIds(c, u) : subs[i].role = "admin"}

\* variant without the last-admin check of a self-demotion
RemoveGroupChatAdminStatus_NoLastAdminCheck(u, c, target) ==
    LET your_subscription == one_or_none(OpenSubIds(c, u))
        their_subscription == one_or_none(OpenAdminSubIds(c, target)) IN
    IF your_subscription = Many THEN MultipleResultsFound
    ELSE IF your_subscription = None THEN Abort("NOT_FOUND", "CHAT_NOT_FOUND")
    ELSE IF subs[your_subscription].role # "admin"
         THEN Abort("PERMISSION_DENIED", "ONLY_ADMIN_CAN_REMOVE_ADMIN")
    ELSE IF their_subscription = Many THEN MultipleResultsFound
    ELSE IF their_subscription = None THEN Abort("FAILED_PRECONDITION", "USER_NOT_ADMIN")
    ELSE Ok

RemoveGroupChatAdminStatus(u, c, target) ==
    LET your_subscription == one_or_none(OpenSubIds(c, u))
        their_subscription == one_or_none(OpenAdminSubIds(c, target)) IN
    IF your_subscription = Many THEN MultipleResultsFound
    ELSE IF your_subscription = None THEN Abort("NOT_FOUND", "CHAT_NOT_FOUND")
    ELSE IF target = u /\ ~(other_admins_count(c, u) > 0)
         THEN Abort("FAILED_PRECONDITION", "CANT_REMOVE_LAST_ADMIN")
    ELSE IF subs[your_subscription].role # "admin"
         THEN Abort("PERMISSION_DENIED", "ONLY_ADMIN_CAN_REMOVE_ADMIN")
    ELSE IF their_subscription = Many THEN MultipleResultsFound
    ELSE IF their_subscription = None THEN Abort("FAILED_PRECONDITION", "USER_NOT_ADMIN")
    ELSE Ok

\* the rows a successful RemoveGroupChatAdmin writes
RemoveGroupChatAdminRows(u, c, target, their_subscription, t) ==
    /\ subs' = [subs EXCEPT ![their_subscription].role = "participant"]
    /\ messages' = Append(messages, Message(c, u, "removed_admin", "", target, t))

RemoveGroupChatAdmin(u, c, target) ==
    LET res == RemoveGroupChatAdminStatus(u, c, target)
        their_subscription == one_or_none(OpenAdminSubIds(c, target)) IN
    /\ Len(messages) < lim.messages
    /\ res.code = "OK"
    /\ RemoveGroupChatAdminRows(u, c, target, their_subscription, now)
    /\ UNCHANGED <<chats, now, marks, lim, txns, pg>>

\* ---------------------------------------------------------- InviteToGroupChat
\* variant without the check that the invited user is already in the chat
InviteToGroupChatStatus_NoMemberCheck(u, c, target, is_friend) ==
    LET your_subscription == one_or_none(OpenSubIds(c, u)) IN
    IF your_subscription = Many THEN MultipleResultsFound
    ELSE IF your_subscription = None THEN Abort("NOT_FOUND", "CHAT_NOT_FOUND")
    ELSE IF target = u THEN Abort("FAILED_PRECONDITION", "CANT_INVITE_SELF")
    ELSE IF subs[your_subscription].role # "admin" /\ chats[c].only_admins_invite
         THEN Abort("PERMISSION_DENIED", "INVITE_PERMISSION_DENIED")
    ELSE IF chats[c].is_dm THEN Abort("FAILED_PRECONDITION", "CANT_INVITE_TO_DM")
    ELSE IF ~is_friend
         THEN Abort("FAILED_PRECONDITION", "GROUP_CHAT_ONLY_INVITE_FRIENDS")
    ELSE Ok

\* variant whose membership check also counts the closed subscriptions
InviteToGroupChatStatus_NoReturn(u, c, target, is_friend) ==
    LET your_subscription == one_or_none(OpenSubIds(c, u)) IN
    IF your_subscription = Many THEN MultipleResultsFound
    ELSE IF your_subscription = None THEN Abort("NOT_FOUND", "CHAT_NOT_FOUND")
    ELSE IF target = u THEN Abort("FAILED_PRECONDITION", "CANT_INVITE_SELF")
    ELSE IF subs[your_subscription].role # "admin" /\ chats[c].only_admins_invite
         THEN Abort("PERMISSION_DENIED", "INVITE_PERMISSION_DENIED")
    ELSE IF chats[c].is_dm THEN Abort("FAILED_PRECONDITION", "CANT_INVITE_TO_DM")
    ELSE IF \E i \in DOMAIN subs : subs[i].group_chat_id = c /\ subs[i].user_id = target
         THEN Abort("FAILED_PRECONDITION", "ALREADY_IN_CHAT")
    ELSE IF ~is_friend
         THEN Abort("FAILED_PRECONDITION", "GROUP_CHAT_ONLY_INVITE_FRIENDS")
    ELSE Ok

\* variant without the check that the chat is a DM
InviteToGroupChatStatus_NoDMCheck(u, c, target, is_friend) ==
    LET your_subscription == one_or_none(OpenSubIds(c, u))
        their_subscription == one_or_none(OpenSubIds(c, target)) IN
    IF your_subscription = Many THEN MultipleResultsFound
    ELSE IF your_subscription = None THEN Abort("NOT_FOUND", "CHAT_NOT_FOUND")
    ELSE IF target = u THEN Abort("FAILED_PRECONDITION", "CANT_INVITE_SELF")
    ELSE IF subs[your_subscription].role # "admin" /\ chats[c].only_admins_invite
         THEN Abort("PERMISSION_DENIED", "INVITE_PERMISSION_DENIED")
    ELSE IF their_subscription = Many THEN MultipleResultsFound
    ELSE IF their_subscription # None THEN Abort("FAILED_PRECONDITION", "ALREADY_IN_CHAT")
    ELSE IF ~is_friend
         THEN Abort("FAILED_PRECONDITION", "GROUP_CHAT_ONLY_INVITE_FRIENDS")
    ELSE Ok

\* variant without the only_admins_invite check
InviteToGroupChatStatus_NoPermissionCheck(u, c, target, is_friend) ==
    LET your_subscription == one_or_none(OpenSubIds(c, u))
        their_subscription == one_or_none(OpenSubIds(c, target)) IN
    IF your_subscription = Many THEN MultipleResultsFound
    ELSE IF your_subscription = None THEN Abort("NOT_FOUND", "CHAT_NOT_FOUND")
    ELSE IF target = u THEN Abort("FAILED_PRECONDITION", "CANT_INVITE_SELF")
    ELSE IF chats[c].is_dm THEN Abort("FAILED_PRECONDITION", "CANT_INVITE_TO_DM")
    ELSE IF their_subscription = Many THEN MultipleResultsFound
    ELSE IF their_subscription # None THEN Abort("FAILED_PRECONDITION", "ALREADY_IN_CHAT")
    ELSE IF ~is_friend
         THEN Abort("FAILED_PRECONDITION", "GROUP_CHAT_ONLY_INVITE_FRIENDS")
    ELSE Ok

\* is_friend: get_friends_status(caller, target) is FRIENDS
InviteToGroupChatStatus(u, c, target, is_friend) ==
    LET your_subscription == one_or_none(OpenSubIds(c, u))
        their_subscription == one_or_none(OpenSubIds(c, target)) IN
    IF your_subscription = Many THEN MultipleResultsFound
    ELSE IF your_subscription = None THEN Abort("NOT_FOUND", "CHAT_NOT_FOUND")
    ELSE IF target = u THEN Abort("FAILED_PRECONDITION", "CANT_INVITE_SELF")
    ELSE IF subs[your_subscription].role # "admin" /\ chats[c].only_admins_invite
         THEN Abort("PERMISSION_DENIED", "INVITE_PERMISSION_DENIED")
    ELSE IF chats[c].is_dm THEN Abort("FAILED_PRECONDITION", "CANT_INVITE_TO_DM")
    ELSE IF their_subscription = Many THEN MultipleResultsFound
    ELSE IF their_subscription # None THEN Abort("FAILED_PRECONDITION", "ALREADY_IN_CHAT")
    ELSE IF ~is_friend
         THEN Abort("FAILED_PRECONDITION", "GROUP_CHAT_ONLY_INVITE_FRIENDS")
    ELSE Ok

\* the rows a successful InviteToGroupChat adds
InviteToGroupChatRows(u, c, target, t) ==
    /\ subs' = Append(subs, GroupChatSubscription(target, c, "participant", t))
    /\ messages' = Append(messages, Message(c, u, "invited", "", target, t))

InviteToGroupChat(u, c, target, is_friend) ==
    LET res == InviteToGroupChatStatus(u, c, target, is_friend) IN
    /\ Len(messages) < lim.messages
    /\ res.code = "OK"
    /\ InviteToGroupChatRows(u, c, target, now)
    /\ UNCHANGED <<chats, now, marks, lim, txns, pg>>

\* ------------------------------------------------------------- LeaveGroupChat
\* variant that lets an admin leave only when another admin stays
LeaveGroupChatStatus_NeedsOtherAdmin(u, c) ==
    LET subscription == one_or_none(OpenSubIds(c, u)) IN
    IF subscription = Many THEN MultipleResultsFound
    ELSE IF subscription = None THEN Abort("NOT_FOUND", "CHAT_NOT_FOUND")
    ELSE IF /\ subs[subscription].role = "admin"
            /\ ~(other_admins_count(c, u) > 0)
         THEN Abort("FAILED_PRECONDITION", "LAST_ADMIN_CANT_LEAVE")
    ELSE Ok

LeaveGroupChatStatus(u, c) ==
    LET subscription == one_or_none(OpenSubIds(c, u)) IN
    IF subscription = Many THEN MultipleResultsFound
    ELSE IF subscription = None THEN Abort("NOT_FOUND", "CHAT_NOT_FOUND")
    ELSE IF /\ subs[subscription].role = "admin"
            /\ ~(other_admins_count(c, u) > 0 \/ participants_count(c, u) = 0)
         THEN Abort("FAILED_PRECONDITION", "LAST_ADMIN_CANT_LEAVE")
    ELSE Ok

\* variant that closes the subscription first and stamps the message after it
LeaveGroupChatRows_StampAfterClose(u, c, subscription, t, tl) ==
    /\ messages' = Append(messages, Message(c, u, "left", "", None, tl))
    /\ subs' = [subs EXCEPT ![subscription].left = t]

\* the rows a successful LeaveGroupChat writes: the `left' message is flushed
\* at time t, then the subscription is closed with left = func.now() = tl
LeaveGroupChatRows(u, c, subscription, t, tl) ==
    /\ messages' = Append(messages, Message(c, u, "left", "", None, t))
    /\ subs' = [subs EXCEPT ![subscription].left = tl]

LeaveGroupChat(u, c, tl) ==
    LET res == LeaveGroupChatStatus(u, c)
        subscription == one_or_none(OpenSubIds(c, u)) IN
    /\ Len(messages) < lim.messages
    /\ res.code = "OK"
    /\ LeaveGroupChatRows(u, c, subscription, now, tl)
    /\ now' = tl
    /\ UNCHANGED <<chats, marks, lim, txns, pg>>

\* --------------------------------------------------------------- inputs
RecipientLists == UNION {[1..n -> Users] : n \in 0..MaxRecipients}
Texts == {"", "a"}
\* the message ids a client may report as seen: any id up to two past the log
SeenArgs == 0..(Len(messages) + 2)
\* the time func.now() gives at the commit of a call that started at `now'
CommitTimes == {t \in {now, now + 1} : t <= lim.time}

Next ==
    \/ Tick
    \/ \E u \in Users, r \in RecipientLists : \E fr \in SUBSET Range(r) : CreateGroupChat(u, r, fr)
    \/ \E u \in Users, c \in ChatIds, text \in Texts : SendMessage(u, c, text)
    \/ \E u \in Users, c \in ChatIds : EditGroupChat(u, c)
    \/ \E u \in Users, c \in ChatIds, target \in Users : MakeGroupChatAdmin(u, c, target)
    \/ \E u \in Users, c \in ChatIds, target \in Users : RemoveGroupChatAdmin(u, c, target)
    \/ \E u \in Users, c \in ChatIds, target \in Users, is_friend \in BOOLEAN :
          InviteToGroupChat(u, c, target, is_friend)
    \/ \E u \in Users, c \in ChatIds, tl \in CommitTimes : LeaveGroupChat(u, c, tl)
    \/ \E u \in Users, c \in ChatIds, seen \in SeenArgs : MarkLastSeenGroupChat(u, c, seen)

Spec == Init /\ [][Next]_vars

\* ----------------------------------------------------------------------
\* Concurrent calls.  A handler is a transaction that first reads (its
\* queries and checks, on the committed rows) and later writes and commits;
\* between the two, other transactions may commit.  The writes go to the rows
\* the reads selected.
\* ----------------------------------------------------------------------
Procs == 1..NumProcs

Idle == [op |-> "idle", user_id |-> 0, group_chat_id |-> 0, target_id |-> 0,
         row |-> 0, recipient_user_ids |-> << >>]

Pending(op, u, c, target, row, recipient_user_ids) ==
    [op |-> op, user_id |-> u, group_chat_id |-> c, target_id |-> target,
     row |-> row, recipient_user_ids |-> recipient_user_ids]

ConcLimits ==
    {[chats |-> MaxChats, messages |-> MaxChats, marks |-> 0, time |-> 1],
     [chats |-> 1, messages |-> MaxMessages, marks |-> 0, time |-> 1]}

InitConc ==
    /\ chats = << >>
    /\ subs = << >>
    /\ messages = << >>
    /\ now = 1
    /\ marks = 0
    /\ lim \in ConcLimits
    /\ txns = [p \in Procs |-> Idle]
    /\ pg = NoPage

\* LeaveGroupChat up to the last-admin check
LeaveGroupChatBegin(p, u, c) ==
    /\ txns[p].op = "idle"
    /\ Len(messages) < lim.messages
    /\ LeaveGroupChatStatus(u, c).code = "OK"
    /\ txns' = [txns EXCEPT ![p] =
                  Pending("LeaveGroupChat", u, c, 0, one_or_none(OpenSubIds(c, u)), << >>)]
    /\ UNCHANGED <<chats, subs, messages, now, marks, lim, pg>>

\* ... and its flush and commit
LeaveGroupChatCommit(p, tl) ==
    /\ txns[p].op = "LeaveGroupChat"
    /\ Len(messages) < lim.messages
    /\ LeaveGroupChatRows(txns[p].user_id, txns[p].group_chat_id, txns[p].row, now, tl)
    /\ now' = tl
    /\ txns' = [txns EXCEPT ![p] = Idle]
    /\ UNCHANGED <<chats, marks, lim, pg>>

\* RemoveGroupChatAdmin up to the selection of the target's subscription
\* (run concurrently for the self-demotions, whose last-admin check races)
RemoveGroupChatAdminBegin(p, u, c, target) ==
    /\ txns[p].op = "idle"
    /\ Len(messages) < lim.messages
    /\ RemoveGroupChatAdminStatus(u, c, target).code = "OK"
    /\ txns' = [txns EXCEPT ![p] =
                  Pending("RemoveGroupChatAdmin", u, c, target,
                          one_or_none(OpenAdminSubIds(c, target)), << >>)]
    /\ UNCHANGED <<chats, subs, messages, now, marks, lim, pg>>

\* ... and its commit
RemoveGroupChatAdminCommit(p) ==
    /\ txns[p].op = "RemoveGroupChatAdmin"
    /\ Len(messages) < lim.messages
    /\ RemoveGroupChatAdminRows(txns[p].user_id, txns[p].group_chat_id,
                                txns[p].target_id, txns[p].row, now)
    /\ txns' = [txns EXCEPT ![p] = Idle]
    /\ UNCHANGED <<chats, now, marks, lim, pg>>

\* CreateGroupChat up to the friendship checks
CreateGroupChatBegin(p, u, recipient_user_ids, fr) ==
    /\ txns[p].op = "idle"
    /\ Len(chats) < lim.chats
    /\ Len(messages) < lim.messages
    /\ CreateGroupChatStatus(u, recipient_user_ids, fr).code = "OK"
    /\ txns' = [txns EXCEPT ![p] =
                  Pending("CreateGroupChat", u, 0, 0, 0, recipient_user_ids)]
    /\ UNCHANGED <<chats, subs, messages, now, marks, lim, pg>>

\* ... and its flush and commit
CreateGroupChatCommit(p) ==
    /\ txns[p].op = "CreateGroupChat"
    /\ Len(chats) < lim.chats
    /\ Len(messages) < lim.messages
    /\ \E title \in CreateTitles, oai \in BOOLEAN :
          CreateGroupChatRows(txns[p].user_id, txns[p].recipient_user_ids, title, oai, now)
    /\ txns' = [txns EXCEPT ![p] = Idle]
    /\ UNCHANGED <<now, marks, lim, pg>>

NextConc ==
    \/ \E u \in Users, c \in ChatIds, target \in Users : MakeGroupChatAdmin(u, c, target)
    \/ \E p \in Procs, u \in Users, c \in ChatIds : LeaveGroupChatBegin(p, u, c)
    \/ \E p \in Procs, tl \in CommitTimes : LeaveGroupChatCommit(p, tl)
    \/ \E p \in Procs, u \in Users, c \in ChatIds : RemoveGroupChatAdminBegin(p, u, c, u)
    \/ \E p \in Procs : RemoveGroupChatAdminCommit(p)
    \/ \E p \in Procs, u \in Users, r \in RecipientLists : \E fr \in SUBSET Range(r) :
          CreateGroupChatBegin(p, u, r, fr)
    \/ \E p \in Procs : CreateGroupChatCommit(p)

SpecConc == InitConc /\ [][NextConc]_vars

\* ----------------------------------------------------------------------
\* Reading a chat page by page
\* ----------------------------------------------------------------------
Min(a, b) == IF a <= b THEN a ELSE b

\* order_by(Message.id.desc()) of join rows <<message id, subscription id>>
RECURSIVE OrderByIdDesc(_)
OrderByIdDesc(rows) ==
    IF rows = {} THEN << >>
    ELSE LET r == CHOOSE r \in rows : \A q \in rows : q[1] <= r[1]
         IN  <<r[1]>> \o OrderByIdDesc(rows \ {r})

\* variant of Query.all() that keeps every row of the join
unique_list_EveryRow(rows) == rows

\* Query.all() of a query for one mapped entity (session.query(Message)):
\* the rows are made unique by entity, the first of equal rows is kept
RECURSIVE unique_list(_)
unique_list(rows) ==
    IF rows = << >> THEN << >>
    ELSE LET front == unique_list(SubSeq(rows, 1, Len(rows) - 1))
             last == rows[Len(rows)]
         IN  IF last \in Range(front) THEN front ELSE Append(front, last)

\* Message.time >= joined and (Message.time <= left or left == None)
Visible(m, s) ==
    /\ messages[m].conversation_id = subs[s].group_chat_id
    /\ messages[m].time >= subs[s].joined
    /\ (subs[s].left = None \/ messages[m].time <= subs[s].left)

GetGroupChatMessages(u, c, last_message_id, only_unseen) ==
    LET rows == {r \in (DOMAIN messages) \X (DOMAIN subs) :
                    /\ subs[r[2]].user_id = u
                    /\ subs[r[2]].group_chat_id = c
                    /\ Visible(r[1], r[2])
                    /\ (r[1] < last_message_id \/ last_message_id = 0)
                    /\ (r[1] > subs[r[2]].last_seen_message_id \/ ~only_unseen)}
        ordered == OrderByIdDesc(rows)
        results == unique_list(SubSeq(ordered, 1, Min(Len(ordered), PAGINATION_LENGTH + 1)))
    IN  [messages |-> SubSeq(results, 1, Min(Len(results), PAGINATION_LENGTH)),
         next_message_id |-> IF Len(results) > 0 THEN results[Len(results)] ELSE 0,
         no_more |-> Len(results) <= PAGINATION_LENGTH]

\* A log to read: user 1 opened a DM with user 2 at time 1 and wrote n1
\* messages; at time 2 user 2 left (or stayed) and user 1 wrote n2 messages;
\* at time 3 user 1 wrote n3 messages.
PageLog(n1, n2, n3, leaves) ==
    <<Message(1, 1, "chat_created", "", None, 1)>>
    \o [i \in 1..n1 |-> Message(1, 1, "normal", "a", None, 1)]
    \o (IF leaves THEN <<Message(1, 2, "left", "", None, 2)>> ELSE << >>)
    \o [i \in 1..n2 |-> Message(1, 1, "normal", "a", None, 2)]
    \o [i \in 1..n3 |-> Message(1, 1, "normal", "a", None, 3)]

InitPage ==
    \E n1, n2, n3 \in 0..MaxLog, leaves \in BOOLEAN, viewer \in Users :
        /\ n1 + n2 + n3 <= MaxLog
        /\ messages = PageLog(n1, n2, n3, leaves)
        /\ chats = <<GroupChatRow("", 1, TRUE, TRUE)>>
        /\ subs = <<[GroupChatSubscription(1, 1, "admin", 1) EXCEPT
                        !.last_seen_message_id =
                            IF n1 + n2 + n3 = 0 THEN 0 ELSE Len(messages)],
                    [GroupChatSubscription(2, 1, "participant", 1) EXCEPT
                        !.left = IF leaves THEN 2 ELSE None]>>
        /\ now = 3
        /\ marks = 0
        /\ lim = [chats |-> 1, messages |-> Len(messages), marks |-> 0, time |-> now]
        /\ txns = NoTxns
        /\ pg = [stage |-> "paging", viewer |-> viewer, cursor |-> 0, acc |-> << >>]

\* the client asks for the next page with the cursor the last page returned
NextPage ==
    /\ pg.stage = "paging"
    /\ LET res == GetGroupChatMessages(pg.viewer, 1, pg.cursor, FALSE) IN
       pg' = [pg EXCEPT !.acc = @ \o res.messages,
                        !.cursor = res.next_message_id,
                        !.stage = IF res.no_more THEN "done" ELSE "paging"]
    /\ UNCHANGED <<chats, subs, messages, now, marks, lim, txns>>

SpecPage == InitPage /\ [][NextPage]_vars

\* ----------------------------------------------------------------------
\* Properties
\* ----------------------------------------------------------------------
\* user u holds an open subscription to chat c
IsOpenMember(c, u) ==
    \E i \in DOMAIN subs :
        subs[i].group_chat_id = c /\ subs[i].user_id = u /\ subs[i].left = None

\* user u holds an open subscription to chat c with role admin
IsOpenAdmin(c, u) ==
    \E i \in DOMAIN subs :
        /\ subs[i].group_chat_id = c /\ subs[i].user_id = u
        /\ subs[i].left = None /\ subs[i].role = "admin"

HasMessage(c, type) ==
    \E m \in DOMAIN messages :
        messages[m].conversation_id = c /\ messages[m].message_type = type

\* C1: with the calls executed one at a time, every chat that has an open
\* subscription has an open subscription with role admin.
C1_AtLeastOneAdmin ==
    \A c \in DOMAIN chats :
        (\E u \in Users : IsOpenMember(c, u)) => (\E u \in Users : IsOpenAdmin(c, u))

\* a chat that went through a demotion and a leave and still has members
C1_Witness ==
    \E c \in DOMAIN chats :
        /\ HasMessage(c, "removed_admin")
        /\ HasMessage(c, "left")
        /\ \E u \in Users : IsOpenMember(c, u)

\* the DM chats in which both users hold open subscriptions
ActiveDMs(u, v) ==
    {c \in DOMAIN chats : chats[c].is_dm /\ IsOpenMember(c, u) /\ IsOpenMember(c, v)}

\* C3: two users share at most one DM chat in which both hold open
\* subscriptions, and while they share one, CreateGroupChat with the other as
\* the single recipient fails as a duplicate DM (FailedPrecondition), whichever
\* of the two is the creator and whatever the friendship.
C3_AtMostOneActiveDM ==
    \A u, v \in Users :
        u # v =>
            /\ Cardinality(ActiveDMs(u, v)) <= 1
            /\ ActiveDMs(u, v) # {} =>
                 \A fr \in SUBSET {v} :
                    CreateGroupChatStatus(u, <<v>>, fr)
                        = [code |-> "FAILED_PRECONDITION", error |-> "You already have a direct message chat with this user."]

\* two DM chats of the same pair: one abandoned by one of them, then a new one
C3_Witness ==
    \E u, v \in Users :
        /\ u # v
        /\ ActiveDMs(u, v) # {}
        /\ \E c \in DOMAIN chats :
              /\ chats[c].is_dm /\ c \notin ActiveDMs(u, v)
              /\ \E i, j \in DOMAIN subs :
                    /\ subs[i].group_chat_id = c /\ subs[i].user_id = u
                    /\ subs[j].group_chat_id = c /\ subs[j].user_id = v

\* the number of open subscriptions of user u to chat c in a table
OpenCount(table, c, u) ==
    Cardinality({i \in DOMAIN table :
        table[i].group_chat_id = c /\ table[i].user_id = u /\ table[i].left = None})

\* C5: with the calls executed one at a time, a (chat, user) pair has at most
\* one open subscription; InviteToGroupChat naming a user who holds an open
\* subscription fails for every caller (as already-in-chat once the caller
\* passed the membership, self, permission and DM checks), and no step opens
\* a subscription for a pair that has an open one.
C5_NoDuplicateMembership ==
    /\ [](\A c \in ChatIds, u \in Users :
            /\ OpenCount(subs, c, u) <= 1
            /\ OpenCount(subs, c, u) >= 1 =>
                 \A caller \in Users, is_friend \in BOOLEAN :
                    LET res == InviteToGroupChatStatus(caller, c, u, is_friend) IN
                    /\ res.code # "OK"
                    /\ ( /\ IsOpenMember(c, caller) /\ caller # u /\ ~chats[c].is_dm
                         /\ (IsOpenAdmin(c, caller) \/ ~chats[c].only_admins_invite) )
                       => res.error = "ALREADY_IN_CHAT")
    /\ [][subs' # subs => \A c \in ChatIds, u \in Users :
            OpenCount(subs', c, u) > OpenCount(subs, c, u) => OpenCount(subs, c, u) = 0]_vars

\* a member invited into a chat is named again in an invite
C5_Witness ==
    \E c \in DOMAIN chats, caller, u \in Users :
        /\ HasMessage(c, "invited")
        /\ \E m \in DOMAIN messages :
              messages[m].message_type = "invited" /\ messages[m].target_id = u
        /\ InviteToGroupChatStatus(caller, c, u, TRUE).error = "ALREADY_IN_CHAT"

\* C6 (as claimed): last_seen_message_id of a subscription never decreases.
C6_LastSeenMonotonic ==
    [][\A i \in DOMAIN subs :
          subs'[i].last_seen_message_id >= subs[i].last_seen_message_id]_vars

\* the messages inside the visibility window of subscription row s
InWindow(s, m) ==
    /\ m.conversation_id = s.group_chat_id
    /\ s.joined <= m.time
    /\ (s.left = None \/ m.time <= s.left)

\* C7 (as claimed): last_seen_message_id of a subscription is at most the
\* highest id of a message inside its visibility window.
C7_LastSeenWithinWindow ==
    \A i \in DOMAIN subs :
        \/ subs[i].last_seen_message_id = 0
        \/ \E m \in DOMAIN messages :
              InWindow(subs[i], messages[m]) /\ subs[i].last_seen_message_id <= m

\* C8: MarkLastSeenGroupChat is NotFound without an open subscription of the
\* viewer, CantUnseeMessages for a messageId below the current
\* last_seen_message_id, and succeeds otherwise; a call that is made succeeds
\* and leaves last_seen_message_id = messageId in the viewer's subscription
\* and every other subscription as it was.
C8_MarkLastSeenOutcome ==
    /\ [](\A u \in Users, c \in ChatIds, seen \in SeenArgs :
            LET res == MarkLastSeenGroupChatStatus(u, c, seen) IN
            IF ~IsOpenMember(c, u) THEN res.code = "NOT_FOUND"
            ELSE \A i \in DOMAIN subs :
                    (subs[i].group_chat_id = c /\ subs[i].user_id = u /\ subs[i].left = None)
                    => IF seen < subs[i].last_seen_message_id
                       THEN res = [code |-> "FAILED_PRECONDITION",
                                   error |-> "CANT_UNSEE_MESSAGES"]
                       ELSE res.code = "OK")
    /\ [][marks' # marks => \A u \in Users, c \in ChatIds, seen \in SeenArgs :
            MarkLastSeenGroupChat(u, c, seen) =>
                /\ IsOpenMember(c, u)
                /\ \A i \in DOMAIN subs :
                      IF subs[i].group_chat_id = c /\ subs[i].user_id = u /\ subs[i].left = None
                      THEN /\ subs[i].last_seen_message_id <= seen
                           /\ subs'[i] = [subs[i] EXCEPT !.last_seen_message_id = seen]
                      ELSE subs'[i] = subs[i]]_vars

\* a mark was made, and some lower id would now be refused
C8_Witness ==
    /\ marks > 0
    /\ \E u \in Users, c \in ChatIds, seen \in SeenArgs :
          MarkLastSeenGroupChatStatus(u, c, seen).error = "CANT_UNSEE_MESSAGES"
    /\ \E u \in Users, c \in ChatIds : ~IsOpenMember(c, u)

\* the claim's admission rule for a caller holding an open subscription
LeaveAdmitted(c, u) ==
    \/ ~IsOpenAdmin(c, u)
    \/ \E v \in Users \ {u} : IsOpenAdmin(c, v)
    \/ ~\E v \in Users \ {u} : IsOpenMember(c, v)

\* C10: LeaveGroupChat is NotFound for a caller without an open subscription;
\* for a caller with one it succeeds exactly when the caller is a participant,
\* or another open admin exists, or no other open member remains, and fails
\* with LastAdminCantLeave otherwise; a subscription is closed, and a `left'
\* message appended, only by an admitted leave.
C10_LeaveAdmission ==
    /\ [](\A u \in Users, c \in ChatIds :
            LET res == LeaveGroupChatStatus(u, c) IN
            IF ~IsOpenMember(c, u) THEN res.code = "NOT_FOUND"
            ELSE IF LeaveAdmitted(c, u) THEN res.code = "OK"
            ELSE res = [code |-> "FAILED_PRECONDITION", error |-> "LAST_ADMIN_CANT_LEAVE"])
    /\ [][/\ \A i \in DOMAIN subs :
                subs'[i].left # subs[i].left =>
                    /\ subs[i].left = None
                    /\ LeaveAdmitted(subs[i].group_chat_id, subs[i].user_id)
                    /\ Len(messages') = Len(messages) + 1
                    /\ messages'[Len(messages')].message_type = "left"
                    /\ messages'[Len(messages')].author_id = subs[i].user_id
          /\ (Len(messages') > Len(messages) /\ messages'[Len(messages')].message_type = "left")
                => \E i \in DOMAIN subs : subs[i].left = None /\ subs'[i].left # None]_vars

\* a sole admin who is refused while a participant remains, after a leave
C10_Witness ==
    \E c \in DOMAIN chats, u \in Users :
        /\ HasMessage(c, "left")
        /\ LeaveGroupChatStatus(u, c).error = "LAST_ADMIN_CANT_LEAVE"

\* C2 (as claimed): with calls running concurrently as read-then-write
\* transactions, every committed state has an open admin in every chat that
\* has an open subscription.
C2_AtLeastOneAdminConcurrent ==
    \A c \in DOMAIN chats :
        (\E i \in DOMAIN subs : subs[i].group_chat_id = c /\ subs[i].left = None)
        => (\E i \in DOMAIN subs : /\ subs[i].group_chat_id = c /\ subs[i].left = None
                                   /\ subs[i].role = "admin")

\* C4 (as claimed): with CreateGroupChat calls for the same pair running
\* concurrently, no committed state has two DM chats in which both users hold
\* open subscriptions.
C4_ConcurrentDMCreation ==
    \A u, v \in Users :
        u # v => \A c, d \in ActiveDMs(u, v) : c = d

\* the ids of the messages of chat c inside a window of user u, newest first
RECURSIVE Descending(_)
Descending(S) ==
    IF S = {} THEN << >>
    ELSE LET x == CHOOSE x \in S : \A y \in S : y <= x
         IN  <<x>> \o Descending(S \ {x})

VisibleIds(c, u) ==
    {m \in DOMAIN messages :
        \E i \in DOMAIN subs :
            /\ subs[i].user_id = u /\ subs[i].group_chat_id = c
            /\ InWindow(subs[i], messages[m])}

\* C9 (as claimed): the pages read from cursor 0 until no_more list, newest
\* first, exactly the messages inside the viewer's window, each once.
C9_PaginationComplete ==
    pg.stage = "done" => pg.acc = Descending(VisibleIds(1, pg.viewer))

\* the closed subscriptions of user u to chat c whose window holds message m
ClosingSubs(m) ==
    {i \in DOMAIN subs :
        /\ subs[i].user_id = messages[m].author_id
        /\ subs[i].group_chat_id = messages[m].conversation_id
        /\ subs[i].left # None
        /\ InWindow(subs[i], messages[m])}

\* C11: a successful LeaveGroupChat appends exactly one `left' message,
\* authored by the leaver and stamped no later than the left time it writes;
\* every `left' message lies inside the window of a closed subscription of its
\* author, is returned to the author by GetGroupChatMessages, and lies outside
\* the window of every subscription of the chat joined after that left time.
C11_LeaveEventVisible ==
    /\ [](\A m \in DOMAIN messages :
            messages[m].message_type = "left" =>
                /\ ClosingSubs(m) # {}
                /\ \E k \in 1..Len(GetGroupChatMessages(messages[m].author_id,
                                        messages[m].conversation_id, 0, FALSE).messages) :
                      GetGroupChatMessages(messages[m].author_id,
                          messages[m].conversation_id, 0, FALSE).messages[k] = m
                /\ \A i \in ClosingSubs(m), j \in DOMAIN subs :
                      (subs[j].group_chat_id = subs[i].group_chat_id
                       /\ subs[j].joined > subs[i].left)
                      => ~InWindow(subs[j], messages[m]))
    /\ [][\A i \in DOMAIN subs :
            (subs[i].left = None /\ subs'[i].left # None) =>
                /\ messages' = Append(messages, messages'[Len(messages')])
                /\ messages'[Len(messages')].message_type = "left"
                /\ messages'[Len(messages')].author_id = subs[i].user_id
                /\ messages'[Len(messages')].conversation_id = subs[i].group_chat_id
                /\ messages'[Len(messages')].time <= subs'[i].left
                /\ subs'[i].joined <= messages'[Len(messages')].time]_vars

\* a member left, the clock moved on, and a subscription of the chat was
\* joined after that
C11_Witness ==
    \E m \in DOMAIN messages :
        /\ messages[m].message_type = "left"
        /\ \E i \in ClosingSubs(m), j \in DOMAIN subs :
              /\ subs[j].group_chat_id = subs[i].group_chat_id
              /\ subs[j].joined > subs[i].left

\* the subscription rows, open or closed, of user u to chat c
SubsOf(c, u) ==
    {i \in DOMAIN subs : subs[i].group_chat_id = c /\ subs[i].user_id = u}

\* C12 (as claimed): every (group chat, user) pair has at most one
\* subscription ever: a user who left gets no new subscription to the chat.
C12_NoRejoin ==
    \A c \in ChatIds, u \in Users : Cardinality(SubsOf(c, u)) <= 1

\* C12 (amended): a closed subscription is never reopened, but a user who left
\* a group chat can be invited again: InviteToGroupChat naming a friend whose
\* subscriptions to the chat are all closed succeeds for every open member who
\* may invite, and it opens a new subscription row next to the closed ones.
C12_RejoinByInvite ==
    /\ [](\A c \in DOMAIN chats, u, v \in Users :
            ( /\ SubsOf(c, v) # {} /\ ~IsOpenMember(c, v)
              /\ IsOpenMember(c, u) /\ ~chats[c].is_dm
              /\ (IsOpenAdmin(c, u) \/ ~chats[c].only_admins_invite) )
            => InviteToGroupChatStatus(u, c, v, TRUE) = Ok)
    /\ [][/\ \A i \in DOMAIN subs :
                /\ i \in DOMAIN subs'
                /\ (subs[i].left # None => subs'[i] = subs[i])
          /\ \A c \in ChatIds, v \in Users :
                (SubsOf(c, v) # {} /\ Cardinality(SubsOf(c, v)') > Cardinality(SubsOf(c, v)))
                => /\ ~IsOpenMember(c, v)
                   /\ subs' = Append(subs, subs'[Len(subs')])
                   /\ subs'[Len(subs')].user_id = v
                   /\ subs'[Len(subs')].group_chat_id = c
                   /\ subs'[Len(subs')].left = None
                   /\ subs'[Len(subs')].role = "participant"]_vars

\* a user holds a closed and an open subscription to the same chat
C12_Witness ==
    \E c \in ChatIds, u \in Users :
        /\ IsOpenMember(c, u)
        /\ \E i \in SubsOf(c, u) : subs[i].left # None

\* C13: InviteToGroupChat on a DM chat succeeds for no caller, target or
\* friendship (a caller who passed the membership, self and permission checks
\* is refused as CANT_INVITE_TO_DM), and a DM chat has exactly two subscription
\* rows ever: its creator's and one other user's.
C13_DMClosedToInvites ==
    \A c \in DOMAIN chats :
        chats[c].is_dm =>
            /\ \A u, v \in Users, is_friend \in BOOLEAN :
                  LET res == InviteToGroupChatStatus(u, c, v, is_friend) IN
                  /\ res.code # "OK"
                  /\ ( /\ IsOpenMember(c, u) /\ u # v
                       /\ (IsOpenAdmin(c, u) \/ ~chats[c].only_admins_invite) )
                     => res = [code |-> "FAILED_PRECONDITION", error |-> "CANT_INVITE_TO_DM"]
            /\ Cardinality({i \in DOMAIN subs : subs[i].group_chat_id = c}) = 2
            /\ Cardinality(SubsOf(c, chats[c].creator_id)) = 1
            /\ \E v \in Users \ {chats[c].creator_id} : Cardinality(SubsOf(c, v)) = 1

\* a DM one of whose two members left, and whose remaining member is refused
\* the invite of the third user because the chat is a DM
C13_Witness ==
    \E c \in DOMAIN chats, u, v \in Users :
        /\ chats[c].is_dm
        /\ HasMessage(c, "left")
        /\ SubsOf(c, v) = {}
        /\ InviteToGroupChatStatus(u, c, v, TRUE).error = "CANT_INVITE_TO_DM"

\* C14: in a non-DM chat with only_admins_invite set, InviteToGroupChat by an
\* open member who is not admin, naming another user, fails with
\* PermissionDenied; once MakeGroupChatAdmin has promoted that member, the
\* call naming a friend who is not in the chat succeeds; and every step that
\* appends an `invited' message is the invite of an allowed caller: it opens
\* one participant subscription for the user the message names as target.
C14_InvitePermissionGate ==
    /\ [](\A c \in DOMAIN chats, u, v \in Users, is_friend \in BOOLEAN :
            ( /\ ~chats[c].is_dm /\ chats[c].only_admins_invite
              /\ IsOpenMember(c, u) /\ ~IsOpenAdmin(c, u) /\ u # v )
            => InviteToGroupChatStatus(u, c, v, is_friend)
                 = [code |-> "PERMISSION_DENIED", error |-> "INVITE_PERMISSION_DENIED"])
    /\ [][\A c \in DOMAIN chats, a, u, v \in Users :
            ( /\ MakeGroupChatAdmin(a, c, u)
              /\ ~chats[c].is_dm /\ chats[c].only_admins_invite
              /\ u # v /\ ~IsOpenMember(c, v) )
            => (InviteToGroupChatStatus(u, c, v, TRUE) = Ok)']_vars
    /\ [][( /\ Len(messages') > Len(messages)
            /\ messages'[Len(messages')].message_type = "invited" )
          => LET m == messages'[Len(messages')] IN
             /\ IsOpenMember(m.conversation_id, m.author_id)
             /\ IsOpenAdmin(m.conversation_id, m.author_id)
                  \/ ~chats[m.conversation_id].only_admins_invite
             /\ ~IsOpenMember(m.conversation_id, m.target_id)
             /\ messages' = Append(messages, m)
             /\ subs' = Append(subs, GroupChatSubscription(m.target_id, m.conversation_id,
                                                           "participant", m.time))]_vars

\* a member was promoted in a chat with only_admins_invite set and then
\* invited a user into it
C14_Witness ==
    \E c \in DOMAIN chats, u \in Users :
        /\ chats[c].only_admins_invite /\ ~chats[c].is_dm
        /\ \E m, n \in DOMAIN messages :
              /\ m < n
              /\ messages[m].conversation_id = c /\ messages[n].conversation_id = c
              /\ messages[m].message_type = "made_admin" /\ messages[m].target_id = u
              /\ messages[n].message_type = "invited" /\ messages[n].author_id = u

\* C15: every message, normal or control, lies inside the window of a
\* subscription of its author to the message's chat.
C15_AuthorInWindow ==
    \A m \in DOMAIN messages :
        \E i \in SubsOf(messages[m].conversation_id, messages[m].author_id) :
            InWindow(subs[i], messages[m])

\* a user wrote a message, then left when the clock had moved on past the
\* flush of the `left' message, and rejoined
C15_Witness ==
    \E c \in ChatIds, u \in Users :
        /\ Cardinality(SubsOf(c, u)) > 1
        /\ \E m \in DOMAIN messages, i \in SubsOf(c, u) :
              /\ messages[m].conversation_id = c /\ messages[m].author_id = u
              /\ messages[m].message_type = "left"
              /\ messages[m].time < subs[i].left

\* the new chat's id when a step creates one
NewChat == Len(chats) + 1

\* ids of the messages of chat c with the given type
MessagesOfType(c, type) ==
    {m \in DOMAIN messages :
        messages[m].conversation_id = c /\ messages[m].message_type = type}

\* C16: CreateGroupChat succeeds only for k >= 1 distinct recipients, all
\* friends of the creator and none the creator; a step that creates a chat is
\* such a call: it adds one chat with
\* is_dm = (k = 1), k+1 open subscriptions to it (the creator's as the only
\* admin, one participant subscription per recipient) and one `chat_created'
\* message authored by the creator; and in every state each chat has exactly
\* one `chat_created' message, authored by its creator, with the lowest id of
\* the chat's messages.
C16_CreateGroupChatResult ==
    /\ [](\A c \in DOMAIN chats :
            /\ Cardinality(MessagesOfType(c, "chat_created")) = 1
            /\ \A m \in MessagesOfType(c, "chat_created"), n \in DOMAIN messages :
                  /\ messages[m].author_id = chats[c].creator_id
                  /\ messages[n].conversation_id = c => m <= n)
    /\ [](\A u \in Users, r \in RecipientLists : \A fr \in SUBSET Range(r) :
            CreateGroupChatStatus(u, r, fr) = Ok =>
                /\ Len(r) >= 1 /\ Cardinality(Range(r)) = Len(r)
                /\ u \notin Range(r) /\ fr = Range(r))
    /\ [][chats' # chats /\ Len(chats') # Len(chats) =>
            \E u \in Users : \E recipients \in SUBSET (Users \ {u}) :
               LET k == Cardinality(recipients)
                   new == {i \in DOMAIN subs' : i \notin DOMAIN subs} IN
               /\ k >= 1
               /\ chats' = Append(chats, chats'[NewChat])
               /\ chats'[NewChat].creator_id = u
               /\ chats'[NewChat].is_dm = (k = 1)
               /\ \A i \in DOMAIN subs : subs'[i] = subs[i]
               /\ Cardinality(new) = k + 1
               /\ \A i \in new : /\ subs'[i].group_chat_id = NewChat
                                 /\ subs'[i].left = None
                                 /\ subs'[i].user_id \in recipients \cup {u}
                                 /\ subs'[i].role = IF subs'[i].user_id = u
                                                    THEN "admin" ELSE "participant"
               /\ \A v \in recipients \cup {u} :
                     Cardinality({i \in new : subs'[i].user_id = v}) = 1
               /\ messages' = Append(messages, Message(NewChat, u, "chat_created", "",
                                                       None, messages'[Len(messages')].time))]_vars

\* a group chat of three and a DM were created, and a chat's log grew on
C16_Witness ==
    /\ \E c \in DOMAIN chats : chats[c].is_dm
    /\ \E c \in DOMAIN chats :
          /\ ~chats[c].is_dm
          /\ \E n \in DOMAIN messages :
                messages[n].conversation_id = c /\ messages[n].message_type # "chat_created"

\* ----------------------------------------------------------------------
\* Listing the chats of a viewer
\* ----------------------------------------------------------------------
Max(S) == CHOOSE x \in S : \A y \in S : y <= x

\* variant that keeps only the viewer's open subscriptions
ListGroupChatsRows_OpenOnly(u, last_message_id) ==
    {r \in (DOMAIN subs) \X (DOMAIN messages) :
        /\ messages[r[2]].conversation_id = subs[r[1]].group_chat_id
        /\ subs[r[1]].user_id = u
        /\ subs[r[1]].left = None
        /\ messages[r[2]].time >= subs[r[1]].joined
        /\ (r[2] < last_message_id \/ last_message_id = 0)}

\* the rows of the outer join of the viewer's subscriptions with the messages
\* of their chats that pass the filters: <<subscription id, message id>>, the
\* message id being None for a subscription whose chat has no message
ListGroupChatsRows(u, last_message_id) ==
    {r \in (DOMAIN subs) \X (DOMAIN messages) :
        /\ messages[r[2]].conversation_id = subs[r[1]].group_chat_id
        /\ subs[r[1]].user_id = u
        /\ messages[r[2]].time >= subs[r[1]].joined
        /\ (messages[r[2]].time <= subs[r[1]].left \/ subs[r[1]].left = None)
        /\ (r[2] < last_message_id \/ last_message_id = 0)}
    \cup {<<s, None>> : s \in {i \in DOMAIN subs :
            /\ subs[i].user_id = u
            /\ ~\E m \in DOMAIN messages :
                  messages[m].conversation_id = subs[i].group_chat_id}}

\* group_by(group_chat_id) with max(subscription id) and max(message id)
ListGroupChatsGroups(rows) ==
    {[group_chat_id |-> c,
      group_chat_subscriptions_id |-> Max({r[1] : r \in {q \in rows : subs[q[1]].group_chat_id = c}}),
      message_id |-> Max({r[2] : r \in {q \in rows : subs[q[1]].group_chat_id = c}})]
     : c \in {subs[r[1]].group_chat_id : r \in rows}}

\* order_by(max(Message.id).desc())
RECURSIVE OrderByMessageIdDesc(_)
OrderByMessageIdDesc(groups) ==
    IF groups = {} THEN << >>
    ELSE LET g == CHOOSE g \in groups : \A h \in groups : h.message_id <= g.message_id
         IN  <<g>> \o OrderByMessageIdDesc(groups \ {g})

ListGroupChats(u, last_message_id) ==
    LET ordered == OrderByMessageIdDesc(ListGroupChatsGroups(ListGroupChatsRows(u, last_message_id)))
        results == SubSeq(ordered, 1, Min(Len(ordered), PAGINATION_LENGTH + 1))
        ids == {IF results[k].message_id # None THEN results[k].message_id ELSE 1
                   : k \in DOMAIN results}
    IN  [group_chats |->
            [k \in 1..Min(Len(results), PAGINATION_LENGTH) |->
                [group_chat_id |-> results[k].group_chat_id,
                 last_seen_message_id |->
                    subs[results[k].group_chat_subscriptions_id].last_seen_message_id,
                 subscription |-> results[k].group_chat_subscriptions_id,
                 latest_message |-> results[k].message_id]],
         next_message_id |-> IF Len(results) > 0
                             THEN (CHOOSE x \in ids : \A y \in ids : x <= y) - 1 ELSE 0,
         no_more |-> Len(results) <= PAGINATION_LENGTH]

\* the listing names each chat at most once, newest latest message first
ListedOnceNewestFirst(rows) ==
    \A j, k \in DOMAIN rows :
        j < k => /\ rows[j].group_chat_id # rows[k].group_chat_id
                 /\ rows[j].latest_message > rows[k].latest_message

\* C19 (as claimed): ListGroupChats lists exactly the chats in which the
\* viewer holds an open subscription, each once, each with the newest message
\* inside the window of the viewer's open subscription, newest first.
C19_ListsOpenChatsOnly ==
    \A u \in Users :
        LET rows == ListGroupChats(u, 0).group_chats IN
        /\ {rows[k].group_chat_id : k \in DOMAIN rows} = {c \in ChatIds : IsOpenMember(c, u)}
        /\ ListedOnceNewestFirst(rows)
        /\ \A k \in DOMAIN rows :
              \A i \in OpenSubIds(rows[k].group_chat_id, u) :
                 rows[k].latest_message
                   = Max({m \in DOMAIN messages : InWindow(subs[i], messages[m])})

\* C19 (amended): ListGroupChats lists exactly the chats to which the viewer
\* holds a subscription, open or closed (a chat the viewer has left stays
\* listed), each once, newest latest message first; the row of a chat carries
\* the viewer's newest subscription to it and the newest message inside the
\* window of any of the viewer's subscriptions to it, which for a viewer with
\* an open subscription is the newest message inside that subscription's
\* window.
C19_ListsEverySubscribedChat ==
    \A u \in Users :
        LET rows == ListGroupChats(u, 0).group_chats IN
        /\ {rows[k].group_chat_id : k \in DOMAIN rows} = {c \in ChatIds : SubsOf(c, u) # {}}
        /\ ListedOnceNewestFirst(rows)
        /\ \A k \in DOMAIN rows :
              /\ rows[k].subscription = Max(SubsOf(rows[k].group_chat_id, u))
              /\ rows[k].latest_message = Max(VisibleIds(rows[k].group_chat_id, u))
              /\ \A i \in OpenSubIds(rows[k].group_chat_id, u) :
                    /\ i = rows[k].subscription
                    /\ rows[k].latest_message
                         = Max({m \in DOMAIN messages : InWindow(subs[i], messages[m])})

\* a viewer is listed a chat they left after a chat they are still in
C19_Witness ==
    \E u \in Users :
        LET rows == ListGroupChats(u, 0).group_chats IN
        /\ Len(rows) > 1
        /\ IsOpenMember(rows[1].group_chat_id, u)
        /\ ~IsOpenMember(rows[2].group_chat_id, u)

\* ----------------------------------------------------------------------
\* Calls that fail
\* ----------------------------------------------------------------------
MaxAbortChats == 2
MaxAbortMessages == 2

\* the tables as a transaction finds them
Db == [chats |-> chats, subs |-> subs, messages |-> messages]

\* variant of the transactional scope that commits whatever the session holds
session_scope_CommitOnExit(before, session, raised) == session

\* with session_scope(...) as session: the tables after the block, which is
\* left by an exception (context.abort raises) or by falling through
session_scope(before, session, raised) ==
    IF raised THEN before ELSE session

\* the index of the first recipient that is not a friend of the caller
FirstNotFriend(recipient_user_ids, fr) ==
    CHOOSE j \in DOMAIN recipient_user_ids :
        /\ recipient_user_ids[j] \notin fr
        /\ \A i \in 1..(j - 1) : recipient_user_ids[i] \in fr

\* what the session of a CreateGroupChat that aborts holds at the abort: the
\* tables as found when the abort comes before the first session.add; the new
\* chat, the creator's subscription and the subscriptions of the recipients
\* before the first one that is not a friend when it comes in the loop
CreateGroupChatSession(u, recipient_user_ids, fr, title, oai, t) ==
    IF /\ CreateGroupChatStatus(u, recipient_user_ids, fr).error
            \in {"GROUP_CHAT_ONLY_ADD_FRIENDS", "DIRECT_MESSAGE_ONLY_FRIENDS"}
    THEN LET c == Len(chats) + 1
             j == FirstNotFriend(recipient_user_ids, fr) IN
         [chats |-> Append(chats, GroupChatRow(title, u, Len(recipient_user_ids) = 1, oai)),
          subs |-> subs \o <<GroupChatSubscription(u, c, "admin", t)>>
                        \o [i \in 1..(j - 1) |->
                              GroupChatSubscription(recipient_user_ids[i], c, "participant", t)],
          messages |-> messages]
    ELSE Db

\* a call that aborts with response res while its session holds `session':
\* the client gets res, the tables are what the transactional scope leaves
Aborts(res, session) ==
    /\ res.code # "OK"
    /\ LET after == session_scope(Db, session, TRUE) IN
       /\ chats' = after.chats
       /\ subs' = after.subs
       /\ messages' = after.messages
    /\ txns' = <<res>>
    /\ UNCHANGED <<now, marks, lim, pg>>

CreateGroupChatAborts(u, recipient_user_ids, fr) ==
    \E title \in CreateTitles, oai \in BOOLEAN :
        Aborts(CreateGroupChatStatus(u, recipient_user_ids, fr),
               CreateGroupChatSession(u, recipient_user_ids, fr, title, oai, now))

MarkLastSeenGroupChatAborts(u, c, seen) ==
    Aborts(MarkLastSeenGroupChatStatus(u, c, seen), Db)

SendMessageAborts(u, c, text) ==
    Aborts(SendMessageStatus(u, c, text), Db)

EditGroupChatAborts(u, c) ==
    Aborts(EditGroupChatStatus(u, c), Db)

MakeGroupChatAdminAborts(u, c, target) ==
    Aborts(MakeGroupChatAdminStatus(u, c, target), Db)

RemoveGroupChatAdminAborts(u, c, target) ==
    Aborts(RemoveGroupChatAdminStatus(u, c, target), Db)

InviteToGroupChatAborts(u, c, target, is_friend) ==
    Aborts(InviteToGroupChatStatus(u, c, target, is_friend), Db)

LeaveGroupChatAborts(u, c) ==
    Aborts(LeaveGroupChatStatus(u, c), Db)

AbortLimits ==
    {[chats |-> MaxAbortChats, messages |-> MaxAbortMessages, marks |-> 0, time |-> 1]}

InitAbort ==
    /\ chats = << >>
    /\ subs = << >>
    /\ messages = << >>
    /\ now = 1
    /\ marks = 0
    /\ lim \in AbortLimits
    /\ txns = NoTxns
    /\ pg = NoPage

\* the calls that succeed build the database; every call that fails is a step
NextAbort ==
    \/ \E u \in Users, r \in RecipientLists : \E fr \in SUBSET Range(r) :
          CreateGroupChat(u, r, fr)
    \/ \E u \in Users, c \in ChatIds, text \in Texts : SendMessage(u, c, text)
    \/ \E u \in Users, c \in ChatIds, target \in Users : MakeGroupChatAdmin(u, c, target)
    \/ \E u \in Users, c \in ChatIds, tl \in CommitTimes : LeaveGroupChat(u, c, tl)
    \/ \E u \in Users, r \in RecipientLists : \E fr \in SUBSET Range(r) :
          CreateGroupChatAborts(u, r, fr)
    \/ \E u \in Users, c \in ChatIds, seen \in SeenArgs : MarkLastSeenGroupChatAborts(u, c, seen)
    \/ \E u \in Users, c \in ChatIds, text \in Texts : SendMessageAborts(u, c, text)
    \/ \E u \in Users, c \in ChatIds : EditGroupChatAborts(u, c)
    \/ \E u \in Users, c \in ChatIds, target \in Users : MakeGroupChatAdminAborts(u, c, target)
    \/ \E u \in Users, c \in ChatIds, target \in Users : RemoveGroupChatAdminAborts(u, c, target)
    \/ \E u \in Users, c \in ChatIds, target \in Users, is_friend \in BOOLEAN :
          InviteToGroupChatAborts(u, c, target, is_friend)
    \/ \E u \in Users, c \in ChatIds : LeaveGroupChatAborts(u, c)

SpecAbort == InitAbort /\ [][NextAbort]_vars

\* the rejections of CreateGroupChat the claim lists
CreateRejections ==
    {"NO_RECIPIENTS", "INVALID_RECIPIENTS", "CANT_ADD_SELF",
     "You already have a direct message chat with this user.",
     "GROUP_CHAT_ONLY_ADD_FRIENDS", "DIRECT_MESSAGE_ONLY_FRIENDS"}

\* C17: a call that returns a failure leaves the chats, the subscriptions and
\* the messages, with their roles, flags and last_seen values, as they were:
\* a step that returns a failure to the client changes no table, and a step
\* that changes a table is a call that succeeded and appended its message. A
\* CreateGroupChat that is not accepted is rejected for one of the listed
\* reasons and leaves no row of the session it had begun behind.
C17_NoPartialWrites ==
    /\ [](\A u \in Users, r \in RecipientLists : \A fr \in SUBSET Range(r) :
            LET res == CreateGroupChatStatus(u, r, fr) IN
            res.code # "OK" => res.error \in CreateRejections)
    /\ [][txns' # txns => Db' = Db]_vars
    /\ [][Db' # Db => /\ txns' = txns
                      /\ Len(messages') = Len(messages) + 1]_vars

\* CreateGroupChat with a recipient who is not a friend was rejected, inside
\* the loop that had already added rows to the session, in a database that
\* holds a chat
C17_Witness ==
    /\ txns = <<Abort("FAILED_PRECONDITION", "GROUP_CHAT_ONLY_ADD_FRIENDS")>>
    /\ Len(chats) > 0

\* ----------------------------------------------------------------------
\* Sending and inviting as the commits of concurrent sessions
\* ----------------------------------------------------------------------
MaxRaceMessages == 4

\* what a SendMessage in progress holds: the subscription it selected and,
\* once its message is committed, the id the message got
SendPending(op, u, c, row, message_id) ==
    [op |-> op, user_id |-> u, group_chat_id |-> c, row |-> row, message_id |-> message_id]

RaceLimits ==
    {[chats |-> 1, messages |-> MaxRaceMessages, marks |-> 0, time |-> 1]}

InitRace ==
    /\ chats = << >>
    /\ subs = << >>
    /\ messages = << >>
    /\ now = 1
    /\ marks = 0
    /\ lim \in RaceLimits
    /\ txns = [p \in Procs |-> Idle]
    /\ pg = NoPage

\* SendMessage up to the selection of the sender's subscription
SendMessageBegin(p, u, c, text) ==
    /\ txns[p].op = "idle"
    /\ Len(messages) < lim.messages
    /\ SendMessageStatus(u, c, text).code = "OK"
    /\ txns' = [txns EXCEPT ![p] =
                  SendPending("SendMessage", u, c, one_or_none(OpenSubIds(c, u)), None)]
    /\ UNCHANGED <<chats, subs, messages, now, marks, lim, pg>>

\* variant that stores the message over the newest row of the log instead of
\* inserting a new row
SendMessageCommitMessage_OverNewestRow(p) ==
    /\ txns[p].op = "SendMessage"
    /\ Len(messages) < lim.messages
    /\ Len(messages) > 0
    /\ messages' = [messages EXCEPT ![Len(messages)] =
                       Message(txns[p].group_chat_id, txns[p].user_id, "normal", "a", None, now)]
    /\ txns' = [txns EXCEPT ![p] =
                  SendPending("SendMessageSeen", txns[p].user_id, txns[p].group_chat_id,
                              txns[p].row, Len(messages))]
    /\ UNCHANGED <<chats, subs, now, marks, lim, pg>>

\* ... its first commit: the message
SendMessageCommitMessage(p) ==
    /\ txns[p].op = "SendMessage"
    /\ Len(messages) < lim.messages
    /\ messages' = Append(messages, Message(txns[p].group_chat_id, txns[p].user_id,
                                            "normal", "a", None, now))
    /\ txns' = [txns EXCEPT ![p] =
                  SendPending("SendMessageSeen", txns[p].user_id, txns[p].group_chat_id,
                              txns[p].row, Len(messages) + 1)]
    /\ UNCHANGED <<chats, subs, now, marks, lim, pg>>

\* ... and its second commit: subscription.last_seen_message_id = message.id
SendMessageCommitSeen(p) ==
    /\ txns[p].op = "SendMessageSeen"
    /\ subs' = [subs EXCEPT ![txns[p].row].last_seen_message_id = txns[p].message_id]
    /\ txns' = [txns EXCEPT ![p] = Idle]
    /\ UNCHANGED <<chats, messages, now, marks, lim, pg>>

\* InviteToGroupChat up to the friendship check
InviteToGroupChatBegin(p, u, c, target, is_friend) ==
    /\ txns[p].op = "idle"
    /\ Len(messages) < lim.messages
    /\ InviteToGroupChatStatus(u, c, target, is_friend).code = "OK"
    /\ txns' = [txns EXCEPT ![p] = Pending("InviteToGroupChat", u, c, target, 0, << >>)]
    /\ UNCHANGED <<chats, subs, messages, now, marks, lim, pg>>

\* ... and its commit
InviteToGroupChatCommit(p) ==
    /\ txns[p].op = "InviteToGroupChat"
    /\ Len(messages) < lim.messages
    /\ InviteToGroupChatRows(txns[p].user_id, txns[p].group_chat_id, txns[p].target_id, now)
    /\ txns' = [txns EXCEPT ![p] = Idle]
    /\ UNCHANGED <<chats, now, marks, lim, pg>>

NextRace ==
    \/ \E u \in Users, r \in RecipientLists : \E fr \in SUBSET Range(r) :
          CreateGroupChat(u, r, fr)
    \/ \E u \in Users, c \in ChatIds, tl \in CommitTimes : LeaveGroupChat(u, c, tl)
    \/ \E p \in Procs, u \in Users, c \in ChatIds, text \in Texts : SendMessageBegin(p, u, c, text)
    \/ \E p \in Procs : SendMessageCommitMessage(p)
    \/ \E p \in Procs : SendMessageCommitSeen(p)
    \/ \E p \in Procs, u \in Users, c \in ChatIds, target \in Users, is_friend \in BOOLEAN :
          InviteToGroupChatBegin(p, u, c, target, is_friend)
    \/ \E p \in Procs : InviteToGroupChatCommit(p)

SpecRace == InitRace /\ [][NextRace]_vars

\* C18 (as claimed): SendMessage with empty text fails with InvalidMessage and
\* without an open subscription of the sender with NotFound; otherwise it
\* appends its message and advances the sender's last_seen_message_id in one
\* commit: no committed state holds a normal message to whose id no
\* subscription of its author to the chat has been advanced.
C18_SendMessageAtomic ==
    /\ \A u \in Users, c \in ChatIds :
          /\ SendMessageStatus(u, c, "") = Abort("INVALID_ARGUMENT", "INVALID_MESSAGE")
          /\ OpenSubIds(c, u) = {} =>
                SendMessageStatus(u, c, "a") = Abort("NOT_FOUND", "CHAT_NOT_FOUND")
    /\ \A m \in DOMAIN messages :
          messages[m].message_type = "normal" =>
             \E i \in SubsOf(messages[m].conversation_id, messages[m].author_id) :
                subs[i].last_seen_message_id >= m

\* C20 (as claimed): with InviteToGroupChat calls naming the same target on
\* the same chat running concurrently, at most one succeeds: no committed
\* state has two open subscriptions of a user to a chat.
C20_ConcurrentInvites ==
    \A c \in ChatIds, u \in Users : OpenCount(subs, c, u) <= 1

\* ----------------------------------------------------------------------
\* Searching the viewer's messages
\* ----------------------------------------------------------------------
Queries == {"", "a", "b"}

\* Message.text.ilike("%query%") for the texts of the model: the text of a
\* control message is NULL (written "") and matches nothing, a normal text
\* contains the empty query and itself
ilike(text, query) == text # "" /\ (query = "" \/ text = query)

SearchMessages(u, last_message_id, query) ==
    LET rows == {r \in (DOMAIN messages) \X (DOMAIN subs) :
                    /\ subs[r[2]].user_id = u
                    /\ Visible(r[1], r[2])
                    /\ (r[1] < last_message_id \/ last_message_id = 0)
                    /\ ilike(messages[r[1]].text, query)}
        ordered == OrderByIdDesc(rows)
        results == unique_list(SubSeq(ordered, 1, Min(Len(ordered), PAGINATION_LENGTH + 1)))
    IN  [results |-> SubSeq(results, 1, Min(Len(results), PAGINATION_LENGTH)),
         next_message_id |-> IF Len(results) > 0 THEN results[Len(results)] ELSE 0,
         no_more |-> Len(results) <= PAGINATION_LENGTH]

\* the cursors a client may send: 0 or any id up to one past the log
Cursors == 0..(Len(messages) + 1)

\* the ids of the messages a query of the viewer matches, newest first
MatchedInChat(u, c, last_message_id) ==
    Descending({m \in VisibleIds(c, u) : m < last_message_id \/ last_message_id = 0})

MatchedBySearch(u, last_message_id, query) ==
    Descending({m \in UNION {VisibleIds(c, u) : c \in 1..Len(chats)} :
                   /\ m < last_message_id \/ last_message_id = 0
                   /\ ilike(messages[m].text, query)})

\* the contract of one page of N = PAGINATION_LENGTH rows over the matched
\* ids: no_more, the page, and the next cursor
CursorContract(matched, page, next_message_id, no_more) ==
    /\ no_more = (Len(matched) <= PAGINATION_LENGTH)
    /\ page = SubSeq(matched, 1, Min(Len(matched), PAGINATION_LENGTH))
    /\ next_message_id = IF page = << >> THEN 0
                         ELSE (CHOOSE x \in Range(page) : \A y \in Range(page) : x <= y) - 1

\* C21 (as claimed): ListGroupChats, GetGroupChatMessages and SearchMessages
\* follow one cursor contract: no_more is true exactly when the query matched
\* at most PAGINATION_LENGTH rows, the page is the first PAGINATION_LENGTH
\* matched rows, and the next cursor is the smallest message id of the
\* returned page minus one, or 0 when no row was returned.
C21_UniformCursorContract ==
    \A u \in Users, last_message_id \in Cursors :
        /\ LET res == GetGroupChatMessages(u, 1, last_message_id, FALSE) IN
           CursorContract(MatchedInChat(u, 1, last_message_id),
                          res.messages, res.next_message_id, res.no_more)
        /\ \A query \in Queries :
              LET res == SearchMessages(u, last_message_id, query) IN
              CursorContract(MatchedBySearch(u, last_message_id, query),
                             res.results, res.next_message_id, res.no_more)
        /\ LET res == ListGroupChats(u, last_message_id)
               ordered == OrderByMessageIdDesc(
                              ListGroupChatsGroups(ListGroupChatsRows(u, last_message_id)))
           IN  CursorContract([k \in DOMAIN ordered |-> ordered[k].message_id],
                              [k \in DOMAIN res.group_chats |-> res.group_chats[k].latest_message],
                              res.next_message_id, res.no_more)

\* ----------------------------------------------------------------------
\* The life of a subscription
\* ----------------------------------------------------------------------
\* C22: a subscription is closed only by a successful LeaveGroupChat of its
\* owner (the step appends the owner's `left' message to the chat and touches
\* no other subscription); a closed subscription never changes again (its
\* left time, role and last_seen_message_id stay); a role changes only on a
\* subscription that is open before and after the step.
C22_SubscriptionStateMachine ==
    [][/\ Len(subs') >= Len(subs)
       /\ \A i \in DOMAIN subs :
             /\ subs[i].left # None => subs'[i] = subs[i]
             /\ (subs[i].left = None /\ subs'[i].left # None) =>
                   /\ LeaveGroupChatStatus(subs[i].user_id, subs[i].group_chat_id) = Ok
                   /\ Len(messages') = Len(messages) + 1
                   /\ messages'[Len(messages')].message_type = "left"
                   /\ messages'[Len(messages')].author_id = subs[i].user_id
                   /\ messages'[Len(messages')].conversation_id = subs[i].group_chat_id
                   /\ subs'[i] = [subs[i] EXCEPT !.left = subs'[i].left]
                   /\ \A j \in DOMAIN subs : j # i => subs'[j] = subs[j]
             /\ subs'[i].role # subs[i].role =>
                   /\ subs[i].left = None
                   /\ subs'[i].left = None
      ]_vars

\* a user left a chat, and afterwards a role was changed and a message was
\* sent in that chat
C22_Witness ==
    \E i \in DOMAIN subs : \E m, n, k \in DOMAIN messages :
        /\ subs[i].left # None
        /\ m < n /\ m < k
        /\ messages[m].message_type = "left"
        /\ messages[m].author_id = subs[i].user_id
        /\ messages[m].conversation_id = subs[i].group_chat_id
        /\ messages[n].conversation_id = subs[i].group_chat_id
        /\ messages[n].message_type \in {"made_admin", "removed_admin"}
        /\ messages[k].conversation_id = subs[i].group_chat_id
        /\ messages[k].message_type = "normal"

RECURSIVE OrderByIdAsc(_)
OrderByIdAsc(rows) ==
    IF rows = {} THEN << >>
    ELSE LET r == CHOOSE r \in rows : \A q \in rows : r[1] <= q[1]
         IN  <<r[1]>> \o OrderByIdAsc(rows \ {r})

\* sorted(results, key=lambda message: message.id)
RECURSIVE sorted(_)
sorted(results) ==
    IF results = << >> THEN << >>
    ELSE LET k == CHOOSE k \in DOMAIN results : \A j \in DOMAIN results : results[k] <= results[j]
         IN  <<results[k]>>
             \o sorted(SubSeq(results, 1, k - 1) \o SubSeq(results, k + 1, Len(results)))

GetUpdates(u, newest_message_id) ==
    LET rows == {r \in (DOMAIN messages) \X (DOMAIN subs) :
                    /\ subs[r[2]].user_id = u
                    /\ Visible(r[1], r[2])
                    /\ r[1] > newest_message_id}
        ordered == OrderByIdAsc(rows)
        results == unique_list(SubSeq(ordered, 1, Min(Len(ordered), PAGINATION_LENGTH + 1)))
        page == sorted(results)
    IN  [updates |->
            [k \in 1..Min(Len(page), PAGINATION_LENGTH) |->
                [group_chat_id |-> messages[page[k]].conversation_id, message |-> page[k]]],
         no_more |-> Len(results) <= PAGINATION_LENGTH]

\* the pairs of a message with an id above the cursor and a subscription of
\* the viewer whose window holds it
UpdateRows(u, newest_message_id) ==
    {r \in (DOMAIN messages) \X (DOMAIN subs) :
        /\ r[1] > newest_message_id
        /\ subs[r[2]].user_id = u
        /\ InWindow(subs[r[2]], messages[r[1]])}

\* C24: for every viewer and cursor GetUpdates returns, oldest first and each
\* once, the messages with an id above the cursor that lie inside a
\* subscription window of the viewer, each with the id of its chat (all of
\* them, with no_more, when at most PAGINATION_LENGTH pairs of a message and
\* a window match; otherwise a page of distinct ones among them); also for a
\* viewer with several subscriptions to one chat and a message inside two of
\* their windows.
C24_UpdatesOncePerMessage ==
    \A u \in Users, newest_message_id \in 0..Len(messages) :
        LET rows == UpdateRows(u, newest_message_id)
            newest_first == Descending({r[1] : r \in rows})
            n == Len(newest_first)
        IN  IF Cardinality(rows) <= PAGINATION_LENGTH
            THEN GetUpdates(u, newest_message_id)
                   = [updates |->
                         [k \in 1..n |->
                             [group_chat_id |-> messages[newest_first[n + 1 - k]].conversation_id,
                              message |-> newest_first[n + 1 - k]]],
                      no_more |-> TRUE]
            ELSE LET updates == GetUpdates(u, newest_message_id).updates IN
                 \A k \in DOMAIN updates :
                    /\ k > 1 => updates[k - 1].message < updates[k].message
                    /\ updates[k].message \in Range(newest_first)
                    /\ updates[k].group_chat_id = messages[updates[k].message].conversation_id

\* a viewer holds two subscriptions to one chat, a message lies inside the
\* windows of both, and the viewer's feed holds it
C24_Witness ==
    \E u \in Users : \E i, j \in DOMAIN subs : \E m \in DOMAIN messages :
        /\ i # j
        /\ subs[i].user_id = u /\ subs[j].user_id = u
        /\ subs[i].group_chat_id = subs[j].group_chat_id
        /\ Visible(m, i) /\ Visible(m, j)
        /\ messages[m].time = subs[i].left
        /\ messages[m].time = subs[j].joined
        /\ \E k \in DOMAIN GetUpdates(u, 0).updates : GetUpdates(u, 0).updates[k].message = m

\* ----------------------------------------------------------------------
\* Outcomes of the admin calls
\* ----------------------------------------------------------------------
\* C25 (as claimed): RemoveGroupChatAdmin answers NotFound to a caller with
\* no open subscription, PermissionDenied to a caller whose open subscription
\* is not admin whatever the target, CantRemoveLastAdmin to an admin naming
\* themself with no other open admin, UserNotAdmin for a target that is not
\* an open admin, and succeeds otherwise; a success turns the target's open
\* subscription into participant and appends one `removed_admin' message with
\* the target; nothing else demotes an admin or appends such a message.
C25_RemoveGroupChatAdminOutcome ==
    /\ [](\A c \in DOMAIN chats, u, target \in Users :
            LET res == RemoveGroupChatAdminStatus(u, c, target) IN
            IF ~IsOpenMember(c, u)
                THEN res = [code |-> "NOT_FOUND", error |-> "CHAT_NOT_FOUND"]
            ELSE IF ~IsOpenAdmin(c, u)
                THEN res = [code |-> "PERMISSION_DENIED",
                            error |-> "ONLY_ADMIN_CAN_REMOVE_ADMIN"]
            ELSE IF target = u /\ ~\E v \in Users \ {u} : IsOpenAdmin(c, v)
                THEN res = [code |-> "FAILED_PRECONDITION", error |-> "CANT_REMOVE_LAST_ADMIN"]
            ELSE IF ~IsOpenAdmin(c, target)
                THEN res = [code |-> "FAILED_PRECONDITION", error |-> "USER_NOT_ADMIN"]
            ELSE res = Ok)
    /\ [][( \/ /\ Len(messages') > Len(messages)
               /\ messages'[Len(messages')].message_type = "removed_admin"
            \/ \E i \in DOMAIN subs : subs[i].role = "admin" /\ subs'[i].role # "admin" )
          => LET m == messages'[Len(messages')] IN
             /\ messages' = Append(messages, m)
             /\ m.message_type = "removed_admin"
             /\ \E i \in OpenSubIds(m.conversation_id, m.target_id) :
                   /\ subs[i].role = "admin"
                   /\ subs' = [subs EXCEPT ![i].role = "participant"]
             /\ chats' = chats]_vars
    /\ [][\A c \in DOMAIN chats, u, target \in Users :
            ( /\ RemoveGroupChatAdminStatus(u, c, target).code # "OK"
              /\ Len(messages') > Len(messages)
              /\ messages'[Len(messages')].author_id = u
              /\ messages'[Len(messages')].target_id = target
              /\ messages'[Len(messages')].conversation_id = c )
            => messages'[Len(messages')].message_type # "removed_admin"]_vars

\* C26: MakeGroupChatAdmin answers NotFound to a caller with no open
\* subscription, PermissionDenied to a caller whose open subscription is not
\* admin, CantMakeSelfAdmin when the target is the caller, UserNotInChat when
\* the target has no open subscription (a target who left included),
\* AlreadyAdmin when the target is an open admin, and succeeds otherwise; a
\* success turns exactly the target's open subscription into admin and
\* appends one `made_admin' message with the target; nothing else promotes a
\* participant or appends such a message.
C26_MakeGroupChatAdminOutcome ==
    /\ [](\A c \in DOMAIN chats, u, target \in Users :
            LET res == MakeGroupChatAdminStatus(u, c, target) IN
            IF ~IsOpenMember(c, u)
                THEN res = [code |-> "NOT_FOUND", error |-> "CHAT_NOT_FOUND"]
            ELSE IF ~IsOpenAdmin(c, u)
                THEN res = [code |-> "PERMISSION_DENIED", error |-> "ONLY_ADMIN_CAN_MAKE_ADMIN"]
            ELSE IF target = u
                THEN res = [code |-> "FAILED_PRECONDITION", error |-> "CANT_MAKE_SELF_ADMIN"]
            ELSE IF ~IsOpenMember(c, target)
                THEN res = [code |-> "FAILED_PRECONDITION", error |-> "USER_NOT_IN_CHAT"]
            ELSE IF IsOpenAdmin(c, target)
                THEN res = [code |-> "FAILED_PRECONDITION", error |-> "ALREADY_ADMIN"]
            ELSE res = Ok)
    /\ [][( \/ /\ Len(messages') > Len(messages)
               /\ messages'[Len(messages')].message_type = "made_admin"
            \/ \E i \in DOMAIN subs : subs[i].role # "admin" /\ subs'[i].role = "admin" )
          => LET m == messages'[Len(messages')] IN
             /\ messages' = Append(messages, m)
             /\ m.message_type = "made_admin"
             /\ MakeGroupChatAdminStatus(m.author_id, m.conversation_id, m.target_id) = Ok
             /\ \E i \in OpenSubIds(m.conversation_id, m.target_id) :
                   /\ subs[i].role = "participant"
                   /\ subs' = [subs EXCEPT ![i].role = "admin"]
             /\ chats' = chats]_vars

\* a participant was made admin in a chat that another user has left, and
\* naming the user who left is answered UserNotInChat
C26_Witness ==
    \E m \in DOMAIN messages : \E v \in Users :
        /\ messages[m].message_type = "made_admin"
        /\ IsOpenAdmin(messages[m].conversation_id, messages[m].target_id)
        /\ IsOpenAdmin(messages[m].conversation_id, messages[m].author_id)
        /\ SubsOf(messages[m].conversation_id, v) # {}
        /\ ~IsOpenMember(messages[m].conversation_id, v)
        /\ MakeGroupChatAdminStatus(messages[m].author_id, messages[m].conversation_id, v)
             = [code |-> "FAILED_PRECONDITION", error |-> "USER_NOT_IN_CHAT"]

\* ----------------------------------------------------------------------
\* The members a viewer is shown
\* ----------------------------------------------------------------------
\* the ids of a set of subscriptions as a list, in id order
RECURSIVE Listed(_)
Listed(S) ==
    IF S = {} THEN << >>
    ELSE LET i == CHOOSE i \in S : \A j \in S : i <= j
         IN  <<i>> \o Listed(S \ {i})

\* variant that does not look at the joined time of the others
_get_visible_members_for_subscription_NoJoinedFilter(subscription) ==
    LET subscriptions == {i \in DOMAIN subs :
                             subs[i].group_chat_id = subs[subscription].group_chat_id}
        shown == IF subs[subscription].left = None
                 THEN {i \in subscriptions : subs[i].left = None}
                 ELSE {i \in subscriptions :
                          \/ subs[i].left >= subs[subscription].left
                          \/ subs[i].left = None}
    IN  [k \in DOMAIN Listed(shown) |-> subs[Listed(shown)[k]].user_id]

_get_visible_members_for_subscription(subscription) ==
    LET subscriptions == {i \in DOMAIN subs :
                             subs[i].group_chat_id = subs[subscription].group_chat_id}
        shown == IF subs[subscription].left = None
                 THEN {i \in subscriptions : subs[i].left = None}
                 ELSE {i \in subscriptions :
                          /\ subs[i].joined <= subs[subscription].left
                          /\ \/ subs[i].left >= subs[subscription].left
                             \/ subs[i].left = None}
    IN  [k \in DOMAIN Listed(shown) |-> subs[Listed(shown)[k]].user_id]

_get_visible_admins_for_subscription(subscription) ==
    LET subscriptions == {i \in DOMAIN subs :
                             subs[i].group_chat_id = subs[subscription].group_chat_id}
        shown == IF subs[subscription].left = None
                 THEN {i \in subscriptions : subs[i].left = None /\ subs[i].role = "admin"}
                 ELSE {i \in subscriptions :
                          /\ subs[i].role = "admin"
                          /\ subs[i].joined <= subs[subscription].left
                          /\ \/ subs[i].left >= subs[subscription].left
                             \/ subs[i].left = None}
    IN  [k \in DOMAIN Listed(shown) |-> subs[Listed(shown)[k]].user_id]

\* One chat whose members leave and are invited back at three different
\* times; the calls that write no subscription are left out.
MaxMemberTime == 3
MaxMemberMessages == 4

MemberLimits ==
    {[chats |-> 1, messages |-> MaxMemberMessages, marks |-> 0, time |-> MaxMemberTime]}

InitMembers ==
    /\ chats = << >>
    /\ subs = << >>
    /\ messages = << >>
    /\ now = 1
    /\ marks = 0
    /\ lim \in MemberLimits
    /\ txns = NoTxns
    /\ pg = NoPage

NextMembers ==
    \/ Tick
    \/ \E u \in Users, r \in RecipientLists : \E fr \in SUBSET Range(r) : CreateGroupChat(u, r, fr)
    \/ \E u \in Users, c \in ChatIds, target \in Users : MakeGroupChatAdmin(u, c, target)
    \/ \E u \in Users, c \in ChatIds, target \in Users : RemoveGroupChatAdmin(u, c, target)
    \/ \E u \in Users, c \in ChatIds, target \in Users, is_friend \in BOOLEAN :
          InviteToGroupChat(u, c, target, is_friend)
    \/ \E u \in Users, c \in ChatIds, tl \in CommitTimes : LeaveGroupChat(u, c, tl)

SpecMembers == InitMembers /\ [][NextMembers]_vars

\* user v holds a subscription to the chat of subscription s that was joined
\* at or before s was left and is open or was left at or after that
MemberAtDeparture(s, v) ==
    \E i \in DOMAIN subs :
        /\ subs[i].user_id = v
        /\ subs[i].group_chat_id = subs[s].group_chat_id
        /\ subs[i].joined <= subs[s].left
        /\ (subs[i].left = None \/ subs[i].left >= subs[s].left)

\* ... and that subscription has role admin
AdminAtDeparture(s, v) ==
    \E i \in DOMAIN subs :
        /\ subs[i].user_id = v
        /\ subs[i].group_chat_id = subs[s].group_chat_id
        /\ subs[i].role = "admin"
        /\ subs[i].joined <= subs[s].left
        /\ (subs[i].left = None \/ subs[i].left >= subs[s].left)

\* C27: for a closed subscription of the viewer the member list holds exactly
\* the users with a subscription to the chat joined at or before the viewer's
\* left time and open or left at or after it (the admin list: such a
\* subscription with role admin), so a user whose subscriptions were all
\* joined after the viewer left, or left before, is not in it; for an open
\* subscription the lists hold exactly the users with an open subscription
\* (the admin list: with role admin).
C27_VisibleMembers ==
    \A s \in DOMAIN subs :
        LET members == Range(_get_visible_members_for_subscription(s))
            admins == Range(_get_visible_admins_for_subscription(s))
            c == subs[s].group_chat_id
        IN  IF subs[s].left = None
            THEN /\ members = {v \in Users : IsOpenMember(c, v)}
                 /\ admins = {v \in Users : IsOpenAdmin(c, v)}
            ELSE /\ members = {v \in Users : MemberAtDeparture(s, v)}
                 /\ admins = {v \in Users : AdminAtDeparture(s, v)}
                 /\ \A v \in Users :
                       (\A i \in SubsOf(c, v) :
                           \/ subs[i].joined > subs[s].left
                           \/ subs[i].left # None /\ subs[i].left < subs[s].left)
                       => v \notin members /\ v \notin admins

\* a viewer left a chat; a user who had left before was invited back later
\* and is an open member, and the viewer is shown the members of the time of
\* leaving, the viewer included, but not that user
C27_Witness ==
    \E s \in DOMAIN subs : \E v \in Users :
        /\ subs[s].left # None
        /\ IsOpenMember(subs[s].group_chat_id, v)
        /\ \E i \in OpenSubIds(subs[s].group_chat_id, v) : subs[i].joined > subs[s].left
        /\ v \notin Range(_get_visible_members_for_subscription(s))
        /\ subs[s].user_id \in Range(_get_visible_members_for_subscription(s))
        /\ Range(_get_visible_admins_for_subscription(s)) # {}

\* ----------------------------------------------------------------------
\* The settings of a chat
\* ----------------------------------------------------------------------
\* C28: EditGroupChat answers NotFound to a caller with no open subscription
\* and PermissionDenied to a caller whose open subscription is not admin, and
\* succeeds otherwise; a chat row changes only in a step that appends exactly
\* one `chat_edited' message to that chat, authored by an open admin of it,
\* and then only in its title and only_admins_invite; such a message is
\* appended only by an admitted edit, which touches no subscription and no
\* other chat; is_dm and the creator of a chat never change, and no chat row
\* disappears.
C28_SettingsOnlyByAdminEdit ==
    /\ [](\A c \in DOMAIN chats, u \in Users :
            LET res == EditGroupChatStatus(u, c) IN
            IF ~IsOpenMember(c, u)
                THEN res = [code |-> "NOT_FOUND", error |-> "CHAT_NOT_FOUND"]
            ELSE IF ~IsOpenAdmin(c, u)
                THEN res = [code |-> "PERMISSION_DENIED", error |-> "ONLY_ADMIN_CAN_EDIT"]
            ELSE res = Ok)
    /\ [][/\ Len(chats') >= Len(chats)
          /\ \A c \in DOMAIN chats :
                /\ chats'[c].is_dm = chats[c].is_dm
                /\ chats'[c].creator_id = chats[c].creator_id
                /\ chats'[c] # chats[c] =>
                      /\ Len(messages') = Len(messages) + 1
                      /\ messages'[Len(messages')].message_type = "chat_edited"
                      /\ messages'[Len(messages')].conversation_id = c]_vars
    /\ [][( /\ Len(messages') > Len(messages)
            /\ messages'[Len(messages')].message_type = "chat_edited" )
          => LET m == messages'[Len(messages')] IN
             /\ messages' = Append(messages, m)
             /\ EditGroupChatStatus(m.author_id, m.conversation_id) = Ok
             /\ IsOpenAdmin(m.conversation_id, m.author_id)
             /\ subs' = subs
             /\ \A c \in DOMAIN chats : c # m.conversation_id => chats'[c] = chats[c]]_vars

\* an admin changed the title and the invite flag of a chat in which a
\* participant is refused the edit
C28_Witness ==
    \E c \in DOMAIN chats : \E m \in DOMAIN messages : \E u \in Users :
        /\ messages[m].message_type = "chat_edited"
        /\ messages[m].conversation_id = c
        /\ chats[c].title = "t"
        /\ IsOpenMember(c, u)
        /\ EditGroupChatStatus(u, c) = [code |-> "PERMISSION_DENIED", error |-> "ONLY_ADMIN_CAN_EDIT"]

\* ----------------------------------------------------------------------
\* A chat everybody has left
\* ----------------------------------------------------------------------
\* chat c has subscriptions and all of them are closed
Emptied(c) ==
    /\ UNION {SubsOf(c, u) : u \in Users} # {}
    /\ \A u \in Users : ~IsOpenMember(c, u)

\* The calls that follow the emptying of a chat: user 1 opened a DM with
\* user 2, user 2 left it and then user 1 left it, all at time 1; from there
\* every call is tried, on the emptied chat and on a second one.
MaxDeadMessages == 6

DeadChat(oai) ==
    [chats |-> <<GroupChatRow("", 1, TRUE, oai)>>,
     subs |-> <<[GroupChatSubscription(1, 1, "admin", 1) EXCEPT !.left = 1],
                [GroupChatSubscription(2, 1, "participant", 1) EXCEPT !.left = 1]>>,
     messages |-> <<Message(1, 1, "chat_created", "", None, 1),
                    Message(1, 2, "left", "", None, 1),
                    Message(1, 1, "left", "", None, 1)>>]

DeadLimits ==
    {[chats |-> MaxChats, messages |-> MaxDeadMessages, marks |-> MaxMarkCalls, time |-> 1]}

InitDead ==
    /\ \E oai \in BOOLEAN :
          /\ chats = DeadChat(oai).chats
          /\ subs = DeadChat(oai).subs
          /\ messages = DeadChat(oai).messages
    /\ now = 1
    /\ marks = 0
    /\ lim \in DeadLimits
    /\ txns = NoTxns
    /\ pg = NoPage

\* the calls, one at a time, within one clock value
NextDead ==
    \/ \E u \in Users, r \in RecipientLists : \E fr \in SUBSET Range(r) : CreateGroupChat(u, r, fr)
    \/ \E u \in Users, c \in ChatIds, text \in Texts : SendMessage(u, c, text)
    \/ \E u \in Users, c \in ChatIds : EditGroupChat(u, c)
    \/ \E u \in Users, c \in ChatIds, target \in Users : MakeGroupChatAdmin(u, c, target)
    \/ \E u \in Users, c \in ChatIds, target \in Users : RemoveGroupChatAdmin(u, c, target)
    \/ \E u \in Users, c \in ChatIds, target \in Users, is_friend \in BOOLEAN :
          InviteToGroupChat(u, c, target, is_friend)
    \/ \E u \in Users, c \in ChatIds, tl \in CommitTimes : LeaveGroupChat(u, c, tl)
    \/ \E u \in Users, c \in ChatIds, seen \in SeenArgs : MarkLastSeenGroupChat(u, c, seen)

SpecDead == InitDead /\ [][NextDead]_vars

\* C29: once every subscription of a chat is closed, every mutating call on
\* the chat by any user is refused (each first needs an open subscription of
\* the caller), and no later step appends a message to the chat, opens a
\* subscription in it, changes one of its subscriptions or changes its row.
C29_EmptiedChatIsDead ==
    /\ [](\A c \in DOMAIN chats : Emptied(c) =>
            \A u, target \in Users :
               /\ \A text \in Texts : SendMessageStatus(u, c, text).code # "OK"
               /\ EditGroupChatStatus(u, c).code = "NOT_FOUND"
               /\ MakeGroupChatAdminStatus(u, c, target).code = "NOT_FOUND"
               /\ RemoveGroupChatAdminStatus(u, c, target).code = "NOT_FOUND"
               /\ \A is_friend \in BOOLEAN :
                     InviteToGroupChatStatus(u, c, target, is_friend).code = "NOT_FOUND"
               /\ LeaveGroupChatStatus(u, c).code = "NOT_FOUND"
               /\ \A seen \in SeenArgs : MarkLastSeenGroupChatStatus(u, c, seen).code = "NOT_FOUND")
    /\ [][\A c \in DOMAIN chats : Emptied(c) =>
            /\ Emptied(c)'
            /\ chats'[c] = chats[c]
            /\ \A i \in DOMAIN subs' :
                  subs'[i].group_chat_id = c => i \in DOMAIN subs /\ subs'[i] = subs[i]
            /\ \A m \in DOMAIN messages' :
                  messages'[m].conversation_id = c
                     => m \in DOMAIN messages /\ messages'[m] = messages[m]]_vars

\* everybody has left a chat, and afterwards messages were sent in another
\* chat and its settings and roles were changed
C29_Witness ==
    \E c \in DOMAIN chats : \E m, n, k \in DOMAIN messages :
        /\ Emptied(c)
        /\ messages[m].conversation_id = c
        /\ messages[m].message_type = "left"
        /\ m < n /\ n < k
        /\ messages[n].conversation_id # c
        /\ messages[k].conversation_id # c
        /\ messages[k].message_type \in {"normal", "chat_edited", "made_admin", "invited"}
====
